---------------------------- MODULE Spec2Model ----------------------------
(***************************************************************************)
(* Verification model of the AWARE reporting dashboard:                    *)
(*   - computeRiskLevel, the risk heuristic of OfficialDashboard.jsx       *)
(*   - handleReportSubmit, the ASHA form's submit flow and history cache   *)
(*   - the official dashboard's load / navigate / view / delete handlers   *)
(*   - the dashboard's map markers (initMap, loadGoogleMaps)               *)
(*   - the dashboard's sensor, graph and prediction panel with its polling *)
(*     timers (part_003)                                                   *)
(*   - generateDiseaseAnalysis, the narrative service (part_003)           *)
(*   - computeSummary, hasOfficialAccess and the two PDF builders, each    *)
(*     applied to inputs drawn from bounded sets                           *)
(* Each part has its own specification (SpecRisk, SpecAsha, SpecDash,      *)
(* SpecDetail, SpecLogin, SpecMap, SpecPanel, SpecNarr, SpecTopArea,       *)
(* SpecToday, SpecAccess, SpecPdf); the variables of the other parts stay  *)
(* at their initial values.                                                *)
(***************************************************************************)
EXTENDS Integers, Sequences, FiniteSets, Bags, TLC

VARIABLES
    \* ---- risk scorer harness
    riskInput,        \* the report handed to computeRiskLevel
    riskOut,          \* the label it returned, "none" before the call
    \* ---- AshaReport.jsx component state and its environment
    saveVariant,      \* which saveAshaWorkerReport definition the build bundles
    online,           \* navigator.onLine
    ashaAuth,         \* isAuthenticated, useState(false)
    view,             \* 'form' | 'success'
    isSavingReport,   \* useState(false)
    formStatus,       \* the status line under the form
    reportHistory,    \* useState(localStorage 'ashaReports'), newest first
    lastReportSummary,\* useState(null), <<>> for null
    clock,            \* Date.now() / new Date(), one tick per submission
    pendingSave,      \* the submission awaiting saveAshaWorkerReport, or NoSave
    ashaStore,        \* documents of the ashaWorkerReports collection written so far
    saveCalls,        \* createdAt of every report saveAshaWorkerReport was called with
    \* ---- OfficialDashboard.jsx component state and its environment
    dashAuth,         \* isAuthenticated, useState(false)
    loading,          \* useState(true)
    error,            \* useState('')
    reports,          \* useState([]), annotated reports, newest first
    emergencyReports, \* useState([])
    selectedReport,   \* useState(null), <<>> for null, <<report>> otherwise
    previewUrl,       \* useState(''), <<>> for '', <<id>> for the blob of that report
    selectedEmergency,
    emergencyPreviewUrl,
    reportIndex,      \* useState(0)
    deletingReportId, \* useState(null), <<>> for null, <<id>> otherwise
    deletingEmergencyId,
    summary,          \* useState({newReports, highRisk, emergencyCount, topArea})
    fetchPc,          \* where fetchData stands: idle, reports, emergencies, done
    fetchedReports,   \* fetchData's local 'mapped' while it awaits the second read
    indexEffect,      \* the [reports.length] effect is scheduled and has not run
    fieldStore,       \* ids of the documents in ashaWorkerReports
    emergStore,       \* ids of the documents in emergencyReports
    inflight,         \* bag of the delete handlers suspended at their await
    lastOp,           \* what the delete handlers did in the last step: none, cancel,
                      \* start, ok, failed; loaded when the maps script arrived
                      \* (observation only)
    \* ---- the dashboard's sensor and prediction panel (part_003)
    sensorsRunning,   \* useState(false)
    graphRunning,     \* useState(false)
    sensorData,       \* useState([])
    mlPredictionResult, \* useState(null), <<>> for null, <<result>> otherwise
    mlLoading,        \* useState(false)
    panelReqs,        \* bag of the panel's requests that have not returned
    graphImageUrl,    \* <<>> for '', <<t>> for the image URL stamped t
    statusTimers,     \* live interval timers of the status effect
    dataTimers,       \* live interval timers of the sensor data effect
    graphTimers,      \* live interval timers of the graph effect
    \* ---- generateDiseaseAnalysis harness (part_003)
    narrConfigured,   \* GEMINI_API_KEY is set and the client was constructed
    narrPrimary,      \* what the call to GEMINI_MODEL yields
    narrFallback,     \* what the call to FALLBACK_MODEL yields
    narrOut,          \* what generateDiseaseAnalysis produced, NotCalled before the call
    \* ---- the dashboard's map (OfficialDashboard.jsx lines 9-31, 323-371)
    mapScript,        \* the Google Maps script: absent, loading, loaded, failed
    mapWaiting,       \* the data of the initMap calls suspended at loadGoogleMaps, oldest first
    mapMarkers,       \* mapMarkers.current, the markers the component keeps track of
    mapShown,         \* bag of the markers whose map is the dashboard's map
    \* ---- harnesses of computeSummary, the PDF builders and hasOfficialAccess
    sumInput,         \* the report list and the clock handed to computeSummary
    sumOut,           \* the summary it set, NotCalled before the call
    pdfInput,         \* the report handed to buildReportPdf / buildEmergencyPdf
    pdfOut,           \* the document built, NotCalled before the call
    accessInput,      \* the allow-list setting and the user handed to hasOfficialAccess
    accessOut         \* what it returned, NotCalled before the call

riskVars == <<riskInput, riskOut>>
ashaVars == <<saveVariant, online, ashaAuth, view, isSavingReport, formStatus,
              reportHistory, lastReportSummary, clock, pendingSave, ashaStore, saveCalls>>
dashVars == <<dashAuth, loading, error, reports, emergencyReports, selectedReport,
              previewUrl, selectedEmergency, emergencyPreviewUrl, reportIndex,
              deletingReportId, deletingEmergencyId, summary, fetchPc, fetchedReports,
              indexEffect, fieldStore, emergStore, inflight, lastOp>>
panelVars == <<sensorsRunning, graphRunning, sensorData, mlPredictionResult, mlLoading,
               panelReqs, graphImageUrl, statusTimers, dataTimers, graphTimers>>
narrVars == <<narrConfigured, narrPrimary, narrFallback, narrOut>>
mapVars == <<mapScript, mapWaiting, mapMarkers, mapShown>>
pureVars == <<sumInput, sumOut, pdfInput, pdfOut, accessInput, accessOut>>
vars == <<riskVars, ashaVars, dashVars, panelVars, narrVars, mapVars, pureVars>>

-----------------------------------------------------------------------------
(* Strings whose letter case matters are sequences of characters.          *)

UpperChars == <<"A","B","C","D","E","F","G","H","I","J","K","L","M",
                "N","O","P","Q","R","S","T","U","V","W","X","Y","Z">>
LowerChars == <<"a","b","c","d","e","f","g","h","i","j","k","l","m",
                "n","o","p","q","r","s","t","u","v","w","x","y","z">>

toLowerChar(c) ==
    IF \E i \in DOMAIN UpperChars : UpperChars[i] = c
    THEN LowerChars[CHOOSE i \in DOMAIN UpperChars : UpperChars[i] = c]
    ELSE c

\* String.prototype.toLowerCase
toLowerCase(s) == [i \in DOMAIN s |-> toLowerChar(s[i])]

\* the literals of computeRiskLevel
LitDiarrhoea == <<"d","i","a","r","r","h","o","e","a">>
LitVomiting  == <<"v","o","m","i","t","i","n","g">>
LitFever     == <<"f","e","v","e","r">>

\* symptom labels as they can reach the scorer: the form's labels, other
\* spellings of them, and the 'Not specified' sentinel
SymDiarrhoea   == <<"D","i","a","r","r","h","o","e","a">>
SymDiarrhoeaLc == <<"d","i","a","r","r","h","o","e","a">>
SymVomitingUc  == <<"V","O","M","I","T","I","N","G">>
SymFever       == <<"F","e","v","e","r">>
SymFeverUc     == <<"F","E","V","E","R">>
SymOther       == <<"O","t","h","e","r">>
SymNotSpec     == <<"N","o","t"," ","s","p","e","c","i","f","i","e","d">>

SymptomLabels == {SymDiarrhoea, SymDiarrhoeaLc, SymVomitingUc, SymFever,
                  SymFeverUc, SymOther, SymNotSpec}

MaxPeople == 21

\* peopleCount is <<>> when the field is missing or empty, <<n>> otherwise
PeopleCounts == {<<>>} \cup {<<n>> : n \in 0..MaxPeople}

YesNo == {"yes", "no"}

\* Number(report.peopleCount || 0)
NumberOrZero(pc) == IF pc = <<>> THEN 0 ELSE pc[1]

RiskScore_CaseSensitive(report) ==
    LET symptoms == report.mainSymptoms
        n == NumberOrZero(report.peopleCount)
    IN  (IF \E s \in symptoms : s \in {LitDiarrhoea, LitVomiting} THEN 2 ELSE 0)
      + (IF LitFever \in symptoms THEN 1 ELSE 0)
      + (IF report.waterDirty = "yes" THEN 2 ELSE 0)
      + (IF report.flooding = "yes" THEN 1 ELSE 0)
      + (IF n >= 20 THEN 2 ELSE IF n >= 10 THEN 1 ELSE 0)

\* the score accumulated by computeRiskLevel (lines 40-48)
RiskScore(report) ==
    LET symptoms == {toLowerCase(s) : s \in report.mainSymptoms}
        n == NumberOrZero(report.peopleCount)
    IN  (IF \E s \in symptoms : s \in {LitDiarrhoea, LitVomiting} THEN 2 ELSE 0)
      + (IF LitFever \in symptoms THEN 1 ELSE 0)
      + (IF report.waterDirty = "yes" THEN 2 ELSE 0)
      + (IF report.flooding = "yes" THEN 1 ELSE 0)
      + (IF n >= 20 THEN 2 ELSE IF n >= 10 THEN 1 ELSE 0)

computeRiskLevel_ExactFive(report) ==
    LET score == RiskScore(report)
    IN  IF score = 5 THEN "High"
        ELSE IF score >= 3 THEN "Medium"
        ELSE "Low"

computeRiskLevel(report) ==
    LET score == RiskScore(report)
    IN  IF score >= 5 THEN "High"
        ELSE IF score >= 3 THEN "Medium"
        ELSE "Low"

RiskInputs == [mainSymptoms : SUBSET SymptomLabels,
               waterDirty   : YesNo,
               flooding     : YesNo,
               peopleCount  : PeopleCounts]

NoRiskInput == [mainSymptoms |-> {}, waterDirty |-> "no", flooding |-> "no",
                peopleCount |-> <<>>]

-----------------------------------------------------------------------------
(* OfficialDashboard.jsx: the documents of the store and the derived data  *)

\* bounds: documents in each collection, and delete requests in flight at
\* the same time
NumReports == 3
NumEmerg == 1
MaxInflight == 2

\* The i-th newest document of ashaWorkerReports as fetchAshaReports
\* returns it (reportService.js 69-80). Times are minutes from the local
\* midnight that starts the day of the session (instant 0).
FieldDoc(i) ==
    [id           |-> <<"asha", i>>,
     villageName  |-> IF i % 2 = 1 THEN "Rampur" ELSE "Sitapur",
     peopleCount  |-> <<(i * 10) % 27>>,
     mainSymptoms |-> CASE i % 3 = 1 -> {SymDiarrhoea, SymFever}
                        [] i % 3 = 2 -> {SymNotSpec}
                        [] OTHER     -> {SymVomitingUc},
     waterDirty   |-> IF i % 3 = 1 THEN "yes" ELSE "no",
     flooding     |-> IF i % 3 = 2 THEN "yes" ELSE "no",
     latitude     |-> IF i % 4 # 0 THEN "30.7" ELSE "",
     longitude    |-> IF i % 2 = 1 THEN "76.7" ELSE "",
     submittedAt  |-> <<600 - 700 * (i - 1)>>]

EmergDoc(j) ==
    [id            |-> <<"emergency", j>>,
     waterBodyName |-> IF j % 2 = 1 THEN "Sukhna" ELSE "Ghaggar",
     submittedAt   |-> <<500 - 700 * (j - 1)>>]

\* fetched.map(report => ({ ...report, risk: computeRiskLevel(report) }))
Annotate(report) ==
    [id           |-> report.id,
     villageName  |-> report.villageName,
     peopleCount  |-> report.peopleCount,
     mainSymptoms |-> report.mainSymptoms,
     waterDirty   |-> report.waterDirty,
     flooding     |-> report.flooding,
     latitude     |-> report.latitude,
     longitude    |-> report.longitude,
     submittedAt  |-> report.submittedAt,
     risk         |-> computeRiskLevel(report)]

\* query(..., orderBy('submittedAt', 'desc')) over the documents present
RECURSIVE NewestFirst(_, _, _)
NewestFirst(ids, i, n) ==
    IF i > n THEN <<>>
    ELSE (IF i \in ids THEN <<i>> ELSE <<>>) \o NewestFirst(ids, i + 1, n)

fetchAshaReports == [k \in DOMAIN NewestFirst(fieldStore, 1, NumReports) |->
                        FieldDoc(NewestFirst(fieldStore, 1, NumReports)[k])]

fetchEmergencyReports == [k \in DOMAIN NewestFirst(emergStore, 1, NumEmerg) |->
                            EmergDoc(NewestFirst(emergStore, 1, NumEmerg)[k])]

CountWhere(list, P(_)) == Cardinality({k \in DOMAIN list : P(list[k])})

\* report.villageName || 'Unknown'
AreaKey(report) == IF report.villageName = "" THEN "Unknown" ELSE report.villageName

RECURSIVE AreaSum(_, _)
AreaSum(list, key) ==
    IF list = <<>> THEN 0
    ELSE (IF AreaKey(Head(list)) = key THEN NumberOrZero(Head(list).peopleCount) ELSE 0)
         + AreaSum(Tail(list), key)

\* The property keys that are canonical array indices, with the index they
\* denote; any other key denotes -1. Object.entries lists the index keys of
\* an object first, in ascending numeric order, and the other string keys
\* after them in the order in which they were created.
ArrayIndex(key) ==
    CASE key = "7"  -> 7
      [] key = "12" -> 12
      [] OTHER      -> 0 - 1

AreaKeys(list) == {AreaKey(list[k]) : k \in DOMAIN list}

\* the report with which the reduce of lines 126-130 creates the key
FirstPos(list, key) == CHOOSE k \in DOMAIN list :
    /\ AreaKey(list[k]) = key
    /\ \A j \in 1..(k - 1) : AreaKey(list[j]) # key

\* key a stands before key b in Object.entries(areaCounts)
EntryBefore(list, a, b) ==
    IF ArrayIndex(a) >= 0
    THEN ArrayIndex(b) < 0 \/ ArrayIndex(a) < ArrayIndex(b)
    ELSE ArrayIndex(b) < 0 /\ FirstPos(list, a) < FirstPos(list, b)

\* Object.entries(areaCounts).sort((a, b) => b[1] - a[1])[0]?.[0] || '-':
\* the sort is stable, so the first entry with the largest sum
TopArea(list) ==
    IF list = <<>> THEN "-"
    ELSE CHOOSE key \in AreaKeys(list) :
             \A other \in AreaKeys(list) \ {key} :
                 \/ AreaSum(list, other) < AreaSum(list, key)
                 \/ /\ AreaSum(list, other) = AreaSum(list, key)
                    /\ EntryBefore(list, key, other)

MinutesPerDay == 1440

\* new Date(now.getFullYear(), now.getMonth(), now.getDate()) (line 118):
\* the local midnight that starts now's local day. Instants are minutes of
\* UTC; offset is local time minus UTC, in minutes.
todayStart(now, offset) == ((now + offset) \div MinutesPerDay) * MinutesPerDay - offset

IsToday_After(report, start) ==
    report.submittedAt # <<>> /\ report.submittedAt[1] > start

\* the filter of lines 119-122; submittedAt is <<>> for null, and otherwise
\* the instant that new Date() reads from the ISO string
IsToday(report, start) ==
    report.submittedAt # <<>> /\ report.submittedAt[1] >= start

IsHigh(report) == report.risk = "High"

\* computeSummary (lines 116-139) called at the instant now
computeSummaryAt(reportsData, emergencyData, now, offset) ==
    [newReports     |-> CountWhere(reportsData, LAMBDA r : IsToday(r, todayStart(now, offset))),
     highRisk       |-> CountWhere(reportsData, IsHigh),
     emergencyCount |-> Len(emergencyData),
     topArea        |-> TopArea(reportsData)]

\* the dashboard sessions run at noon of the day that starts at instant 0,
\* in a place whose local time is UTC
SessionNow == 720
SessionOffset == 0

computeSummary(reportsData, emergencyData) ==
    computeSummaryAt(reportsData, emergencyData, SessionNow, SessionOffset)

NoOp == "none"

\* the state the component is constructed with (lines 56-74)
DashIdle ==
    /\ dashAuth = FALSE
    /\ loading = TRUE
    /\ error = ""
    /\ reports = <<>>
    /\ emergencyReports = <<>>
    /\ selectedReport = <<>>
    /\ previewUrl = <<>>
    /\ selectedEmergency = <<>>
    /\ emergencyPreviewUrl = <<>>
    /\ reportIndex = 0
    /\ deletingReportId = <<>>
    /\ deletingEmergencyId = <<>>
    /\ summary = [newReports |-> 0, highRisk |-> 0, emergencyCount |-> 0, topArea |-> "-"]
    /\ fetchPc = "idle"
    /\ fetchedReports = <<>>
    /\ indexEffect = FALSE
    /\ fieldStore = {}
    /\ emergStore = {}
    /\ inflight = EmptyBag
    /\ lastOp = NoOp

\* the panel's state at construction (part_003 lines 76-91)
PanelIdle ==
    /\ sensorsRunning = FALSE
    /\ graphRunning = FALSE
    /\ sensorData = <<>>
    /\ mlPredictionResult = <<>>
    /\ mlLoading = FALSE
    /\ panelReqs = EmptyBag
    /\ graphImageUrl = <<>>
    /\ statusTimers = 0
    /\ dataTimers = 0
    /\ graphTimers = 0

\* a model call that rejects
Rejects == [kind |-> "reject"]

NotCalled == [called |-> FALSE]

\* generateDiseaseAnalysis not called, no client
NarrIdle ==
    /\ narrConfigured = FALSE
    /\ narrPrimary = Rejects
    /\ narrFallback = Rejects
    /\ narrOut = NotCalled

\* the map before the dashboard's first load; the script is present in a
\* page that has shown the dashboard before (lines 10-13)
MapIdle ==
    /\ mapScript = "loaded"
    /\ mapWaiting = <<>>
    /\ mapMarkers = <<>>
    /\ mapShown = EmptyBag

NoPdfInput == [kind |-> "none"]

\* the harnesses before they are given an input
SumIdle ==
    /\ sumInput = [reports |-> <<>>, now |-> 0, offset |-> 0]
    /\ sumOut = NotCalled

PdfIdle ==
    /\ pdfInput = NoPdfInput
    /\ pdfOut = NotCalled

AccessIdle ==
    /\ accessInput = [allowed |-> <<>>, user |-> <<>>]
    /\ accessOut = NotCalled

PureIdle == SumIdle /\ PdfIdle /\ AccessIdle

-----------------------------------------------------------------------------
(* AshaReport.jsx                                                          *)

\* String.prototype.trim, for the blanks a typed user name can carry
RECURSIVE trimStart(_)
trimStart(s) == IF s # <<>> /\ Head(s) = " " THEN trimStart(Tail(s)) ELSE s

RECURSIVE trimEnd(_)
trimEnd(s) ==
    IF s # <<>> /\ s[Len(s)] = " " THEN trimEnd(SubSeq(s, 1, Len(s) - 1)) ELSE s

trim(s) == trimEnd(trimStart(s))

\* credentials (line 7)
CredUsername == <<"u","s","e","r">>
CredPassword == <<"1","2","3","4","5">>

\* what a user can type into the login form
TypedUsernames == {CredUsername, <<" ","u","s","e","r"," ">>, <<"U","s","e","r">>,
                   <<"u","s","e","r","s">>}
TypedPasswords == {CredPassword, <<"1","2","3","4","5"," ">>, <<"1","2","3","4">>}

MsgGranted   == "Access granted. Complete the report below."
MsgInvalid   == "Invalid credentials. Please try again."
MsgOffline   == "Report saved offline. It will sync once online."
MsgSubmitted == "Report submitted successfully."
MsgNoStore   == "Could not reach Firebase. Report stored locally."

HistoryLimit == 30

\* bounds of the exploration: submissions in all, and those made while online
MaxSubmits == 31
MaxSaveCalls == 2

NoSave == [pending |-> FALSE]

PrependCapped_OffByOne(x, prev) ==
    LET all == <<x>> \o prev
    IN  IF Len(all) <= HistoryLimit + 1 THEN all ELSE SubSeq(all, 1, HistoryLimit + 1)

PrependCapped_KeepLast(x, prev) ==
    LET all == <<x>> \o prev
    IN  IF Len(all) <= HistoryLimit THEN all
        ELSE SubSeq(all, Len(all) - HistoryLimit + 1, Len(all))

\* [x, ...prev].slice(0, 30)
PrependCapped(x, prev) ==
    LET all == <<x>> \o prev
    IN  IF Len(all) <= HistoryLimit THEN all ELSE SubSeq(all, 1, HistoryLimit)

\* The history an earlier session left in localStorage: its entries were
\* written by the same handler, so there are at most HistoryLimit of them
\* and each carries one of the three statuses.
OldStatus(i) ==
    CASE i % 3 = 0 -> "Pending sync"
      [] i % 3 = 1 -> "Synced"
      [] OTHER     -> "Failed"

OldEntry(i) == [id |-> <<"old", i>>, createdAt |-> 0 - i, status |-> OldStatus(i)]

StoredHistory(n) == [i \in 1..n |-> OldEntry(i)]

InitHistoryLens == {0, HistoryLimit}

AshaIdle ==
    /\ saveVariant = "second"
    /\ online = TRUE
    /\ ashaAuth = FALSE
    /\ view = "form"
    /\ isSavingReport = FALSE
    /\ formStatus = ""
    /\ reportHistory = <<>>
    /\ lastReportSummary = <<>>
    /\ clock = 0
    /\ pendingSave = NoSave
    /\ ashaStore = {}
    /\ saveCalls = {}

InitAsha ==
    /\ PanelIdle
    /\ NarrIdle
    /\ MapIdle
    /\ PureIdle
    /\ riskInput = NoRiskInput
    /\ riskOut = "none"
    /\ saveVariant \in {"first", "second"}
    /\ online \in BOOLEAN
    /\ ashaAuth = FALSE
    /\ view = "form"
    /\ isSavingReport = FALSE
    /\ formStatus = ""
    /\ \E n \in InitHistoryLens : reportHistory = StoredHistory(n)
    /\ DashIdle
    /\ lastReportSummary = <<>>
    /\ clock = 0
    /\ pendingSave = NoSave
    /\ ashaStore = {}
    /\ saveCalls = {}

\* navigator.onLine follows the network
GoOffline ==
    /\ online
    /\ online' = FALSE
    /\ UNCHANGED <<riskVars, pureVars, mapVars, panelVars, narrVars, dashVars, saveVariant, ashaAuth, view, isSavingReport, formStatus,
                   reportHistory, lastReportSummary, clock, pendingSave, ashaStore,
                   saveCalls>>

GoOnline ==
    /\ ~online
    /\ online' = TRUE
    /\ UNCHANGED <<riskVars, pureVars, mapVars, panelVars, narrVars, dashVars, saveVariant, ashaAuth, view, isSavingReport, formStatus,
                   reportHistory, lastReportSummary, clock, pendingSave, ashaStore,
                   saveCalls>>

\* handleLoginSubmit (lines 66-77); the login form is rendered only while
\* unauthenticated (line 155)
handleLoginSubmit(username, password) ==
    /\ ~ashaAuth
    /\ IF trim(username) = CredUsername /\ password = CredPassword
       THEN /\ ashaAuth' = TRUE
            /\ formStatus' = MsgGranted
       ELSE /\ ashaAuth' = FALSE
            /\ formStatus' = MsgInvalid
    /\ UNCHANGED <<riskVars, pureVars, mapVars, panelVars, narrVars, dashVars, saveVariant, online, view, isSavingReport, reportHistory,
                   lastReportSummary, clock, pendingSave, ashaStore, saveCalls>>

\* normalizedReport (lines 103-109); the form's payload fields are copied
\* through unchanged and are left out
NormalizedReport(t) == [id |-> <<"client", t>>, createdAt |-> t]

WithStatus(report, st) ==
    [id |-> report.id, createdAt |-> report.createdAt, status |-> st]

\* the form and its submit button are rendered in the form view of an
\* authenticated session, and the button is disabled while saving (line 341)
CanSubmit ==
    /\ ashaAuth
    /\ view = "form"
    /\ ~isSavingReport
    /\ clock < MaxSubmits

SubmitOffline_FallsThrough ==
    /\ CanSubmit
    /\ ~online
    /\ Cardinality(saveCalls) < MaxSaveCalls
    /\ clock' = clock + 1
    /\ formStatus' = MsgOffline
    /\ reportHistory' =
           PrependCapped(WithStatus(NormalizedReport(clock'), "Pending sync"),
                         reportHistory)
    /\ isSavingReport' = FALSE
    /\ pendingSave' = [pending |-> TRUE, report |-> NormalizedReport(clock')]
    /\ saveCalls' = saveCalls \cup {clock'}
    /\ UNCHANGED <<riskVars, pureVars, mapVars, panelVars, narrVars, dashVars, saveVariant, online, ashaAuth, view, lastReportSummary,
                   ashaStore>>

\* handleReportSubmit, offline branch (lines 96-116): runs to its return
SubmitOffline ==
    /\ CanSubmit
    /\ ~online
    /\ clock' = clock + 1
    /\ formStatus' = MsgOffline
    /\ reportHistory' =
           PrependCapped(WithStatus(NormalizedReport(clock'), "Pending sync"),
                         reportHistory)
    /\ isSavingReport' = FALSE
    /\ UNCHANGED <<riskVars, pureVars, mapVars, panelVars, narrVars, dashVars, saveVariant, online, ashaAuth, view, lastReportSummary,
                   pendingSave, ashaStore, saveCalls>>

\* handleReportSubmit, online branch up to the await of line 119: the
\* write request has been handed to the store
SubmitOnline ==
    /\ CanSubmit
    /\ online
    /\ Cardinality(saveCalls) < MaxSaveCalls
    /\ clock' = clock + 1
    /\ isSavingReport' = TRUE
    /\ formStatus' = ""
    /\ pendingSave' = [pending |-> TRUE, report |-> NormalizedReport(clock')]
    /\ saveCalls' = saveCalls \cup {clock'}
    /\ UNCHANGED <<riskVars, pureVars, mapVars, panelVars, narrVars, dashVars, saveVariant, online, ashaAuth, view, reportHistory,
                   lastReportSummary, ashaStore>>

SaveCatch_Discards(report) ==
    /\ formStatus' = MsgNoStore
    /\ isSavingReport' = FALSE
    /\ UNCHANGED <<view, lastReportSummary, reportHistory>>

\* the catch block (lines 126-131)
SaveCatch(report) ==
    /\ formStatus' = MsgNoStore
    /\ reportHistory' = PrependCapped(WithStatus(report, "Failed"), reportHistory)
    /\ isSavingReport' = FALSE
    /\ UNCHANGED <<view, lastReportSummary>>

SaveThen_StaysSaving(report, docRef) ==
    LET record == WithStatus([report EXCEPT !.id = docRef.id], "Synced")
    IN  /\ reportHistory' = PrependCapped(record, reportHistory)
        /\ lastReportSummary' = <<record>>
        /\ formStatus' = MsgSubmitted
        /\ view' = "success"
        /\ isSavingReport' = isSavingReport

\* lines 120-125, docRef being what saveAshaWorkerReport resolved to
SaveThen(report, docRef) ==
    LET record == WithStatus([report EXCEPT !.id = docRef.id], "Synced")
    IN  /\ reportHistory' = PrependCapped(record, reportHistory)
        /\ lastReportSummary' = <<record>>
        /\ formStatus' = MsgSubmitted
        /\ view' = "success"
        /\ isSavingReport' = FALSE

\* addDoc accepted the document and assigned its id. The second definition
\* of saveAshaWorkerReport (reportService.js 61-67) returns the document
\* reference; the first (16-22) returns nothing, so reading docRef.id on
\* line 120 throws and control passes to the catch block.
SaveAccepted ==
    /\ pendingSave.pending
    /\ LET report == pendingSave.report
           docId  == <<"doc", Cardinality(ashaStore) + 1>>
       IN  /\ ashaStore' = ashaStore \cup {[id |-> docId, createdAt |-> report.createdAt]}
           /\ IF saveVariant = "second"
              THEN SaveThen(report, [id |-> docId])
              ELSE SaveCatch(report)
    /\ pendingSave' = NoSave
    /\ UNCHANGED <<riskVars, pureVars, mapVars, panelVars, narrVars, dashVars, saveVariant, online, ashaAuth, clock, saveCalls>>

\* addDoc rejected the write (permission denied, network unreachable)
SaveRejected ==
    /\ pendingSave.pending
    /\ SaveCatch(pendingSave.report)
    /\ pendingSave' = NoSave
    /\ UNCHANGED <<riskVars, pureVars, mapVars, panelVars, narrVars, dashVars, saveVariant, online, ashaAuth, clock, ashaStore, saveCalls>>

\* handleDraftAnotherReport (lines 134-139)
handleDraftAnotherReport ==
    /\ ashaAuth
    /\ view = "success"
    /\ formStatus' = ""
    /\ view' = "form"
    /\ lastReportSummary' = <<>>
    /\ UNCHANGED <<riskVars, pureVars, mapVars, panelVars, narrVars, dashVars, saveVariant, online, ashaAuth, isSavingReport,
                   reportHistory, clock, pendingSave, ashaStore, saveCalls>>

AshaLogin == \E u \in TypedUsernames, p \in TypedPasswords : handleLoginSubmit(u, p)

NextAsha ==
    \/ GoOffline
    \/ GoOnline
    \/ AshaLogin
    \/ SubmitOffline
    \/ SubmitOnline
    \/ SaveAccepted
    \/ SaveRejected
    \/ handleDraftAnotherReport

SpecAsha == InitAsha /\ [][NextAsha]_vars

\* The store answers every write it was handed, and the browser reports a
\* network that came back; nothing obliges the user to act.
FairSpecAsha ==
    /\ SpecAsha
    /\ WF_vars(SaveAccepted \/ SaveRejected)
    /\ WF_vars(GoOnline)

-----------------------------------------------------------------------------
(* Claims about the ASHA form's history cache, checked under SpecAsha.     *)

Entries(h) == {h[k] : k \in DOMAIN h}

(* C2: from a history of at most 30 entries, after any sequence of         *)
(* submissions the history never holds more than 30 entries, every entry   *)
(* is added at the head (so the newest submission is the head) and when a  *)
(* 31st entry is added the tail is the one evicted.                        *)
C2_Shift ==
    reportHistory' # reportHistory =>
        /\ Len(reportHistory') =
               IF Len(reportHistory) < HistoryLimit THEN Len(reportHistory) + 1
               ELSE HistoryLimit
        /\ reportHistory'[1].createdAt = clock'
        /\ \A k \in 2..Len(reportHistory') : reportHistory'[k] = reportHistory[k - 1]
        /\ Len(reportHistory) = HistoryLimit =>
               reportHistory[HistoryLimit] \notin Entries(reportHistory')

C2_HistoryCap ==
    /\ [](Len(reportHistory) <= HistoryLimit)
    /\ []((clock > 0 /\ ~pendingSave.pending) => reportHistory[1].createdAt = clock)
    /\ [][C2_Shift]_vars

\* 31 submissions into an empty history: the first one has been evicted
C2_Witness ==
    /\ clock = HistoryLimit + 1
    /\ ~pendingSave.pending
    /\ Len(reportHistory) = HistoryLimit
    /\ reportHistory[HistoryLimit].createdAt = 2
    /\ reportHistory[1].createdAt = HistoryLimit + 1

(* C3: a report submitted while offline is at the head of the history with *)
(* status Pending sync when that submit step ends, and no store write is   *)
(* issued for it, in that step or later.                                   *)
C3_OfflineStep ==
    (clock' = clock + 1 /\ ~online) =>
        /\ Len(reportHistory') >= 1
        /\ reportHistory'[1] =
               [id |-> <<"client", clock'>>, createdAt |-> clock',
                status |-> "Pending sync"]
        /\ saveCalls' = saveCalls
        /\ pendingSave' = pendingSave
        /\ ashaStore' = ashaStore

C3_OfflineNoWrite ==
    /\ [][C3_OfflineStep]_vars
    /\ [](\A e \in Entries(reportHistory) :
             (e.status = "Pending sync" /\ e.createdAt > 0) =>
                 /\ e.createdAt \notin saveCalls
                 /\ \A d \in ashaStore : d.createdAt # e.createdAt)

\* an offline submission made after a synced one
C3_Witness ==
    /\ Len(reportHistory) >= 2
    /\ reportHistory[1].status = "Pending sync"
    /\ reportHistory[1].createdAt = clock
    /\ reportHistory[2].status = "Synced"
    /\ reportHistory[2].createdAt = clock - 1
    /\ formStatus = MsgOffline
    /\ ~online

(* C4 as stated: a report created while offline is never dropped from the  *)
(* history, whatever number of submissions follows.                        *)
C4_NeverDropped ==
    [][\A e \in Entries(reportHistory) :
          (e.status = "Pending sync" /\ e.createdAt > 0) =>
              e \in Entries(reportHistory')]_vars

\* the submissions of this session that were made offline
OfflineSubmissions == (1..clock) \ saveCalls

\* how many entries were recorded after submission t
RecordedAfter(t) == (clock - t) - (IF pendingSave.pending THEN 1 ELSE 0)

(* C4 amended: a report created while offline stays in the history with    *)
(* status Pending sync, one place further down per later entry, as long as *)
(* fewer than 30 entries were recorded after it; the 30th later entry      *)
(* evicts it.                                                              *)
C4_RetainedUntilEvicted ==
    \A t \in OfflineSubmissions :
        IF RecordedAfter(t) < HistoryLimit
        THEN /\ RecordedAfter(t) + 1 \in DOMAIN reportHistory
             /\ reportHistory[RecordedAfter(t) + 1] =
                    [id |-> <<"client", t>>, createdAt |-> t, status |-> "Pending sync"]
        ELSE \A e \in Entries(reportHistory) : e.createdAt # t

\* an offline report of this session in the last place, after a synced one
C4_Witness ==
    /\ Len(reportHistory) = HistoryLimit
    /\ reportHistory[HistoryLimit].status = "Pending sync"
    /\ reportHistory[HistoryLimit].createdAt > 0
    /\ reportHistory[1].status = "Synced"

(* C5: a report saved offline with status Pending sync is synced once the  *)
(* client is online again: it is eventually written to the store and its   *)
(* history status becomes Synced.                                          *)
PendingInHistory(t) ==
    \E e \in Entries(reportHistory) : e.createdAt = t /\ e.status = "Pending sync"

SyncedInHistory(t) ==
    /\ t \in saveCalls
    /\ \E e \in Entries(reportHistory) : e.createdAt = t /\ e.status = "Synced"

C5_AutoSync == (PendingInHistory(1) /\ online) ~> SyncedInHistory(1)

(* C6: when the store rejects the write of an online submission the report *)
(* is added at the head of the history with status Failed, the view stays  *)
(* on the form and the saving flag is cleared.                             *)
C6_RejectedStep ==
    (pendingSave.pending /\ ~pendingSave'.pending /\ ashaStore' = ashaStore) =>
        /\ Len(reportHistory') >= 1
        /\ reportHistory'[1] =
               [id |-> pendingSave.report.id, createdAt |-> pendingSave.report.createdAt,
                status |-> "Failed"]
        /\ \A e \in Entries(reportHistory) :
               \/ e \in Entries(reportHistory')
               \/ Len(reportHistory) = HistoryLimit /\ e = reportHistory[HistoryLimit]
        /\ view = "form"
        /\ view' = "form"
        /\ isSavingReport
        /\ ~isSavingReport'

C6_RejectedKept == [][C6_RejectedStep]_vars

\* a rejected write: nothing in the store, the report in the history
C6_Witness ==
    /\ clock = 1
    /\ saveCalls = {1}
    /\ ashaStore = {}
    /\ ~pendingSave.pending
    /\ reportHistory[1] = [id |-> <<"client", 1>>, createdAt |-> 1, status |-> "Failed"]
    /\ formStatus = MsgNoStore
    /\ view = "form"
    /\ ~isSavingReport

(* C7: when the store accepts the write of an online submission the report *)
(* is recorded with status Synced and the id the store assigned, and the   *)
(* view switches to success; an accepted write is never recorded as Failed.*)
C7_AcceptedStep ==
    (pendingSave.pending /\ ashaStore' # ashaStore) =>
        /\ Len(reportHistory') >= 1
        /\ reportHistory'[1].status = "Synced"
        /\ reportHistory'[1].createdAt = pendingSave.report.createdAt
        /\ \E d \in ashaStore' \ ashaStore : reportHistory'[1].id = d.id
        /\ reportHistory'[1].id # pendingSave.report.id
        /\ view' = "success"

C7_AcceptedIsSynced ==
    /\ [][C7_AcceptedStep]_vars
    /\ [](\A e \in Entries(reportHistory) :
             e.status = "Failed" => \A d \in ashaStore : d.createdAt # e.createdAt)

(* C28: the saving flag is true exactly while a submission awaits the      *)
(* store; no submission is started while it is true; and it is false after *)
(* every outcome: the offline branch, a write the store accepted (with     *)
(* either definition of saveAshaWorkerReport) and a write it rejected.     *)
C28_Step ==
    /\ clock' # clock => ~isSavingReport
    /\ (clock' # clock /\ ~online) => ~isSavingReport'
    /\ (clock' # clock /\ online) => isSavingReport'
    /\ (pendingSave.pending /\ ~pendingSave'.pending) => (isSavingReport /\ ~isSavingReport')

C28_SavingFlag ==
    /\ [](isSavingReport <=> pendingSave.pending)
    /\ [][C28_Step]_vars

\* a second submission awaits the store after the first one was rejected
C28_Witness ==
    /\ isSavingReport
    /\ pendingSave.pending
    /\ pendingSave.report.createdAt = 2
    /\ Len(reportHistory) >= 1
    /\ reportHistory[1].status = "Failed"
    /\ reportHistory[1].createdAt = 1

-----------------------------------------------------------------------------
(* OfficialDashboard.jsx: handlers                                         *)

MsgBadOfficial  == "Invalid credentials for officials."
MsgLoadFailed   == "Failed to load reports."
MsgDeleteReport == "Failed to delete report: Permission denied. Please check Firestore security rules."
MsgDeleteEmerg  == "Failed to delete emergency request: Permission denied. Please check Firestore security rules."

InitDash ==
    /\ PanelIdle
    /\ NarrIdle
    /\ MapIdle
    /\ PureIdle
    /\ riskInput = NoRiskInput
    /\ riskOut = "none"
    /\ AshaIdle
    /\ dashAuth = FALSE
    /\ loading = TRUE
    /\ error = ""
    /\ reports = <<>>
    /\ emergencyReports = <<>>
    /\ selectedReport = <<>>
    /\ previewUrl = <<>>
    /\ selectedEmergency = <<>>
    /\ emergencyPreviewUrl = <<>>
    /\ reportIndex = 0
    /\ deletingReportId = <<>>
    /\ deletingEmergencyId = <<>>
    /\ summary = [newReports |-> 0, highRisk |-> 0, emergencyCount |-> 0, topArea |-> "-"]
    /\ fetchPc = "idle"
    /\ fetchedReports = <<>>
    /\ indexEffect = FALSE
    /\ \E n \in {0, NumReports} : fieldStore = 1..n
    /\ \E m \in {0, NumEmerg} : emergStore = 1..m
    /\ inflight = EmptyBag
    /\ lastOp = NoOp

handleLogin_TrimsPassword(username, password) ==
    /\ ~dashAuth
    /\ IF trim(username) = CredUsername /\ trim(password) = CredPassword
       THEN /\ dashAuth' = TRUE
            /\ error' = ""
            /\ loading' = TRUE
            /\ fetchPc' = "reports"
       ELSE /\ error' = MsgBadOfficial
            /\ UNCHANGED <<dashAuth, loading, fetchPc>>
    /\ lastOp' = NoOp
    /\ UNCHANGED <<riskVars, pureVars, mapVars, panelVars, narrVars, ashaVars, reports, emergencyReports, selectedReport,
                   previewUrl, selectedEmergency, emergencyPreviewUrl, reportIndex,
                   deletingReportId, deletingEmergencyId, summary, fetchedReports,
                   indexEffect, fieldStore, emergStore, inflight>>

\* handleLogin (lines 373-384); on success the [isAuthenticated] effect
\* (lines 85-110) starts fetchData, which runs to its first await
handleLogin(username, password) ==
    /\ ~dashAuth
    /\ IF trim(username) = CredUsername /\ password = CredPassword
       THEN /\ dashAuth' = TRUE
            /\ error' = ""
            /\ loading' = TRUE
            /\ fetchPc' = "reports"
       ELSE /\ error' = MsgBadOfficial
            /\ UNCHANGED <<dashAuth, loading, fetchPc>>
    /\ lastOp' = NoOp
    /\ UNCHANGED <<riskVars, pureVars, mapVars, panelVars, narrVars, ashaVars, reports, emergencyReports, selectedReport,
                   previewUrl, selectedEmergency, emergencyPreviewUrl, reportIndex,
                   deletingReportId, deletingEmergencyId, summary, fetchedReports,
                   indexEffect, fieldStore, emergStore, inflight>>

DashLogin == \E u \in TypedUsernames, p \in TypedPasswords : handleLogin(u, p)

MsgMap == "Unable to load map. Please check your API key."

\* riskPalette (lines 33-37)
riskPalette(risk) ==
    CASE risk = "Low"    -> "#22c55e"
      [] risk = "Medium" -> "#facc15"
      [] risk = "High"   -> "#ef4444"

\* the markers created by lines 341-358: one per report with a latitude
\* and a longitude, in the order of the list
Markers(data) ==
    LET located == SelectSeq(data, LAMBDA report : report.latitude # "" /\ report.longitude # "")
    IN  [k \in DOMAIN located |->
            [report    |-> located[k].id,
             position  |-> <<located[k].latitude, located[k].longitude>>,
             fillColor |-> riskPalette(located[k].risk)]]

RECURSIVE BagOfSeq(_)
BagOfSeq(s) == IF s = <<>> THEN EmptyBag ELSE SetToBag({Head(s)}) (+) BagOfSeq(Tail(s))

\* the map as [markers, shown]: what mapMarkers.current holds and what is
\* drawn on the map
Redraw_KeepsOld(map, data) ==
    [markers |-> Markers(data),
     shown   |-> map.shown (+) BagOfSeq(Markers(data))]

\* initMap after its await (lines 326-366): every marker kept track of is
\* taken off the map, the new ones are put on it and kept track of
Redraw(map, data) ==
    [markers |-> Markers(data),
     shown   |-> (map.shown (-) BagOfSeq(map.markers)) (+) BagOfSeq(Markers(data))]

\* the suspended initMap calls resume in the order in which they were made
RECURSIVE RedrawAll(_, _)
RedrawAll(map, waiting) ==
    IF waiting = <<>> THEN map ELSE RedrawAll(Redraw(map, Head(waiting)), Tail(waiting))

\* initMap(data) is called (lines 323-325). With the script present
\* loadGoogleMaps resolves at once and the call resumes as soon as the
\* calling code has returned; the first call without it adds the script
\* element and waits for its load event, a later one waits for the same
\* event; after the script failed to load, the events a later call listens
\* for never come and it stays suspended.
initMap(data) ==
    CASE mapScript = "loaded" ->
             /\ mapMarkers' = Redraw([markers |-> mapMarkers, shown |-> mapShown], data).markers
             /\ mapShown' = Redraw([markers |-> mapMarkers, shown |-> mapShown], data).shown
             /\ UNCHANGED <<mapScript, mapWaiting>>
      [] mapScript = "absent" ->
             /\ mapScript' = "loading"
             /\ mapWaiting' = <<data>>
             /\ UNCHANGED <<mapMarkers, mapShown>>
      [] mapScript = "loading" ->
             /\ mapWaiting' = Append(mapWaiting, data)
             /\ UNCHANGED <<mapScript, mapMarkers, mapShown>>
      [] mapScript = "failed" ->
             UNCHANGED mapVars

\* the script's load event (lines 28, 17): every waiting call resumes
ScriptLoaded ==
    /\ mapScript = "loading"
    /\ ~indexEffect
    /\ mapScript' = "loaded"
    /\ mapMarkers' = RedrawAll([markers |-> mapMarkers, shown |-> mapShown], mapWaiting).markers
    /\ mapShown' = RedrawAll([markers |-> mapMarkers, shown |-> mapShown], mapWaiting).shown
    /\ mapWaiting' = <<>>
    /\ lastOp' = "loaded"
    /\ UNCHANGED <<riskVars, pureVars, panelVars, narrVars, ashaVars, dashAuth, loading, error,
                   reports, emergencyReports, selectedReport, previewUrl, selectedEmergency,
                   emergencyPreviewUrl, reportIndex, deletingReportId,
                   deletingEmergencyId, summary, fetchPc, fetchedReports, indexEffect,
                   fieldStore, emergStore, inflight>>

\* the script's error event (lines 29, 18): every waiting call is rejected
\* and its catch block sets the error (lines 367-370)
ScriptFailed ==
    /\ mapScript = "loading"
    /\ ~indexEffect
    /\ mapScript' = "failed"
    /\ mapWaiting' = <<>>
    /\ error' = MsgMap
    /\ lastOp' = NoOp
    /\ UNCHANGED <<riskVars, pureVars, panelVars, narrVars, ashaVars, dashAuth, loading,
                   reports, emergencyReports, selectedReport, previewUrl, selectedEmergency,
                   emergencyPreviewUrl, reportIndex, deletingReportId,
                   deletingEmergencyId, summary, fetchPc, fetchedReports, indexEffect,
                   fieldStore, emergStore, inflight, mapMarkers, mapShown>>

\* fetchData: fetchAshaReports resolved (lines 91-95)
FetchReportsOk ==
    /\ fetchPc = "reports"
    /\ fetchedReports' = [k \in DOMAIN fetchAshaReports |-> Annotate(fetchAshaReports[k])]
    /\ fetchPc' = "emergencies"
    /\ lastOp' = NoOp
    /\ UNCHANGED <<riskVars, pureVars, mapVars, panelVars, narrVars, ashaVars, dashAuth, loading, error, reports,
                   emergencyReports, selectedReport, previewUrl, selectedEmergency,
                   emergencyPreviewUrl, reportIndex, deletingReportId,
                   deletingEmergencyId, summary, indexEffect, fieldStore, emergStore,
                   inflight>>

FetchFailed_KeepsLoading ==
    /\ fetchPc \in {"reports", "emergencies"}
    /\ error' = MsgLoadFailed
    /\ fetchPc' = "done"
    /\ fetchedReports' = <<>>
    /\ lastOp' = NoOp
    /\ UNCHANGED <<riskVars, pureVars, mapVars, panelVars, narrVars, ashaVars, dashAuth, loading, reports, emergencyReports,
                   selectedReport, previewUrl, selectedEmergency, emergencyPreviewUrl,
                   reportIndex, deletingReportId, deletingEmergencyId, summary,
                   indexEffect, fieldStore, emergStore, inflight>>

\* fetchData: either read rejected (lines 101-106)
FetchFailed ==
    /\ fetchPc \in {"reports", "emergencies"}
    /\ error' = MsgLoadFailed
    /\ loading' = FALSE
    /\ fetchPc' = "done"
    /\ fetchedReports' = <<>>
    /\ lastOp' = NoOp
    /\ UNCHANGED <<riskVars, pureVars, mapVars, panelVars, narrVars, ashaVars, dashAuth, reports, emergencyReports,
                   selectedReport, previewUrl, selectedEmergency, emergencyPreviewUrl,
                   reportIndex, deletingReportId, deletingEmergencyId, summary,
                   indexEffect, fieldStore, emergStore, inflight>>

\* fetchData: fetchEmergencyReports resolved (lines 96-100, 104-106)
FetchEmergenciesOk ==
    /\ fetchPc = "emergencies"
    /\ reports' = fetchedReports
    /\ emergencyReports' = fetchEmergencyReports
    /\ summary' = computeSummary(fetchedReports, fetchEmergencyReports)
    /\ loading' = FALSE
    /\ fetchPc' = "done"
    /\ fetchedReports' = <<>>
    /\ indexEffect' = (Len(fetchedReports) # Len(reports))
    /\ initMap(fetchedReports)
    /\ lastOp' = NoOp
    /\ UNCHANGED <<riskVars, pureVars, panelVars, narrVars, ashaVars, dashAuth, error, selectedReport, previewUrl,
                   selectedEmergency, emergencyPreviewUrl, reportIndex,
                   deletingReportId, deletingEmergencyId, fieldStore, emergStore,
                   inflight>>

IndexEffect_KeepsIndex ==
    /\ indexEffect
    /\ reportIndex' = reportIndex
    /\ indexEffect' = FALSE
    /\ lastOp' = NoOp
    /\ UNCHANGED <<riskVars, pureVars, mapVars, panelVars, narrVars, ashaVars, dashAuth, loading, error, reports,
                   emergencyReports, selectedReport, previewUrl, selectedEmergency,
                   emergencyPreviewUrl, deletingReportId, deletingEmergencyId, summary,
                   fetchPc, fetchedReports, fieldStore, emergStore, inflight>>

\* useEffect(() => setReportIndex(0), [reports.length]) (lines 112-114, 319-321):
\* scheduled by a render in which reports.length changed, run before any
\* later event or update is processed
IndexEffect ==
    /\ indexEffect
    /\ reportIndex' = 0
    /\ indexEffect' = FALSE
    /\ lastOp' = NoOp
    /\ UNCHANGED <<riskVars, pureVars, mapVars, panelVars, narrVars, ashaVars, dashAuth, loading, error, reports,
                   emergencyReports, selectedReport, previewUrl, selectedEmergency,
                   emergencyPreviewUrl, deletingReportId, deletingEmergencyId, summary,
                   fetchPc, fetchedReports, fieldStore, emergStore, inflight>>

\* the dashboard is rendered and no effect is waiting to run
Ready == dashAuth /\ ~indexEffect

\* const currentReport = reports[reportIndex] || null (line 387)
currentReport ==
    IF reportIndex + 1 \in DOMAIN reports THEN <<reports[reportIndex + 1]>> ELSE <<>>

Min_Larger(a, b) == IF a <= b THEN b ELSE a

\* Math.min (line 301)
Min(a, b) == IF a <= b THEN a ELSE b

\* prev => (reports.length ? (prev - 1 + reports.length) % reports.length : 0)
PrevIndex(prev, n) == IF n # 0 THEN (prev - 1 + n) % n ELSE 0

NextIndex_NoWrap(prev, n) == IF n # 0 THEN Min(prev + 1, n - 1) ELSE 0

\* prev => (reports.length ? (prev + 1) % reports.length : 0)
NextIndex(prev, n) == IF n # 0 THEN (prev + 1) % n ELSE 0

\* handlePrevReport / handleNextReport (lines 389-395); the archive is
\* rendered only when reports.length > 0 (line 674)
handlePrevReport ==
    /\ Ready
    /\ Len(reports) > 0
    /\ reportIndex' = PrevIndex(reportIndex, Len(reports))
    /\ lastOp' = NoOp
    /\ UNCHANGED <<riskVars, pureVars, mapVars, panelVars, narrVars, ashaVars, dashAuth, loading, error, reports,
                   emergencyReports, selectedReport, previewUrl, selectedEmergency,
                   emergencyPreviewUrl, deletingReportId, deletingEmergencyId, summary,
                   fetchPc, fetchedReports, indexEffect, fieldStore, emergStore,
                   inflight>>

handleNextReport ==
    /\ Ready
    /\ Len(reports) > 0
    /\ reportIndex' = NextIndex(reportIndex, Len(reports))
    /\ lastOp' = NoOp
    /\ UNCHANGED <<riskVars, pureVars, mapVars, panelVars, narrVars, ashaVars, dashAuth, loading, error, reports,
                   emergencyReports, selectedReport, previewUrl, selectedEmergency,
                   emergencyPreviewUrl, deletingReportId, deletingEmergencyId, summary,
                   fetchPc, fetchedReports, indexEffect, fieldStore, emergStore,
                   inflight>>

\* handleViewReport (lines 237-242), from a table row or the archive card
handleViewReport(report) ==
    /\ Ready
    /\ ~loading
    /\ selectedReport' = <<report>>
    /\ previewUrl' = <<report.id>>
    /\ lastOp' = NoOp
    /\ UNCHANGED <<riskVars, pureVars, mapVars, panelVars, narrVars, ashaVars, dashAuth, loading, error, reports,
                   emergencyReports, selectedEmergency, emergencyPreviewUrl,
                   reportIndex, deletingReportId, deletingEmergencyId, summary, fetchPc,
                   fetchedReports, indexEffect, fieldStore, emergStore, inflight>>

ViewReport == \E k \in DOMAIN reports : handleViewReport(reports[k])

\* the Close button of the detail card (line 539)
CloseReport ==
    /\ Ready
    /\ selectedReport # <<>>
    /\ selectedReport' = <<>>
    /\ previewUrl' = <<>>
    /\ lastOp' = NoOp
    /\ UNCHANGED <<riskVars, pureVars, mapVars, panelVars, narrVars, ashaVars, dashAuth, loading, error, reports,
                   emergencyReports, selectedEmergency, emergencyPreviewUrl,
                   reportIndex, deletingReportId, deletingEmergencyId, summary, fetchPc,
                   fetchedReports, indexEffect, fieldStore, emergStore, inflight>>

\* handleViewEmergency (lines 274-279)
handleViewEmergency(report) ==
    /\ Ready
    /\ ~loading
    /\ selectedEmergency' = <<report>>
    /\ emergencyPreviewUrl' = <<report.id>>
    /\ lastOp' = NoOp
    /\ UNCHANGED <<riskVars, pureVars, mapVars, panelVars, narrVars, ashaVars, dashAuth, loading, error, reports,
                   emergencyReports, selectedReport, previewUrl, reportIndex,
                   deletingReportId, deletingEmergencyId, summary, fetchPc,
                   fetchedReports, indexEffect, fieldStore, emergStore, inflight>>

ViewEmergency == \E k \in DOMAIN emergencyReports : handleViewEmergency(emergencyReports[k])

\* the Close button of the emergency detail card (line 645)
CloseEmergency ==
    /\ Ready
    /\ selectedEmergency # <<>>
    /\ selectedEmergency' = <<>>
    /\ emergencyPreviewUrl' = <<>>
    /\ lastOp' = NoOp
    /\ UNCHANGED <<riskVars, pureVars, mapVars, panelVars, narrVars, ashaVars, dashAuth, loading, error, reports,
                   emergencyReports, selectedReport, previewUrl, reportIndex,
                   deletingReportId, deletingEmergencyId, summary, fetchPc,
                   fetchedReports, indexEffect, fieldStore, emergStore, inflight>>

\* the Dismiss button of the error banner (lines 460-470)
DismissError ==
    /\ Ready
    /\ error # ""
    /\ error' = ""
    /\ lastOp' = NoOp
    /\ UNCHANGED <<riskVars, pureVars, mapVars, panelVars, narrVars, ashaVars, dashAuth, loading, reports, emergencyReports,
                   selectedReport, previewUrl, selectedEmergency, emergencyPreviewUrl,
                   reportIndex, deletingReportId, deletingEmergencyId, summary, fetchPc,
                   fetchedReports, indexEffect, fieldStore, emergStore, inflight>>

FilterOut_Inverted(list, id) == SelectSeq(list, LAMBDA item : item.id = id)

\* prev.filter(item => item.id !== report.id) (lines 296, 406)
FilterOut(list, id) == SelectSeq(list, LAMBDA item : item.id # id)

DeleteReportStart_Optimistic(report) ==
    /\ deletingReportId' = <<report.id>>
    /\ error' = ""
    /\ reports' = FilterOut(reports, report.id)
    /\ inflight' = inflight (+) SetToBag(
           {[kind |-> "report", id |-> report.id,
             capReports |-> <<>>, capEmergencies |-> emergencyReports,
             capSelected |-> (selectedReport # <<>> /\ selectedReport[1].id = report.id)]})
    /\ lastOp' = "start"
    /\ UNCHANGED <<dashAuth, loading, emergencyReports, selectedReport,
                   previewUrl, selectedEmergency, emergencyPreviewUrl, reportIndex,
                   deletingEmergencyId, summary, fetchPc, fetchedReports, indexEffect,
                   fieldStore, emergStore>>

\* handleDeleteReport after the confirmation, up to the await of line 294.
\* The handler keeps the emergencyReports and selectedReport of the render
\* it was created in; of selectedReport it only uses the test of line 303.
DeleteReportStart(report) ==
    /\ deletingReportId' = <<report.id>>
    /\ error' = ""
    /\ inflight' = inflight (+) SetToBag(
           {[kind |-> "report", id |-> report.id,
             capReports |-> <<>>, capEmergencies |-> emergencyReports,
             capSelected |-> (selectedReport # <<>> /\ selectedReport[1].id = report.id)]})
    /\ lastOp' = "start"
    /\ UNCHANGED <<dashAuth, loading, reports, emergencyReports, selectedReport,
                   previewUrl, selectedEmergency, emergencyPreviewUrl, reportIndex,
                   deletingEmergencyId, summary, fetchPc, fetchedReports, indexEffect,
                   fieldStore, emergStore>>

\* window.confirm answered with Cancel: the handler returns (lines 290, 400)
DeleteCancelled(kind, report) ==
    /\ lastOp' = "cancel"
    /\ UNCHANGED <<dashAuth, loading, error, reports, emergencyReports, selectedReport,
                   previewUrl, selectedEmergency, emergencyPreviewUrl, reportIndex,
                   deletingReportId, deletingEmergencyId, summary, fetchPc,
                   fetchedReports, indexEffect, fieldStore, emergStore, inflight>>

\* handleDeleteReport (lines 287-294), from the archive card's Delete
\* button, which is disabled while deletingReportId is the card's report
\* (line 709)
handleDeleteReport(confirmDelete) ==
    /\ Ready
    /\ currentReport # <<>>
    /\ deletingReportId # <<currentReport[1].id>>
    /\ BagCardinality(inflight) < MaxInflight
    /\ IF confirmDelete
       THEN DeleteReportStart(currentReport[1])
       ELSE DeleteCancelled("report", currentReport[1])
    /\ UNCHANGED <<riskVars, pureVars, mapVars, panelVars, narrVars, ashaVars>>

ClickDeleteReport == \E c \in BOOLEAN : handleDeleteReport(c)

\* handleDeleteReport resumed after deleteAshaReport resolved (lines 295-308,
\* 314-316). deleteDoc also resolves for a document that is already gone.
DeleteReportOk(d) ==
    LET updated == FilterOut(reports, d.id)
    IN  /\ Ready
        /\ BagIn(d, inflight)
        /\ d.kind = "report"
        /\ fieldStore' = fieldStore \ {d.id[2]}
        /\ reports' = updated
        /\ summary' = computeSummary(updated, d.capEmergencies)
        /\ reportIndex' = IF updated = <<>> THEN 0
                          ELSE Min(reportIndex, Len(updated) - 1)
        /\ IF d.capSelected
           THEN selectedReport' = <<>> /\ previewUrl' = <<>>
           ELSE UNCHANGED <<selectedReport, previewUrl>>
        /\ deletingReportId' = <<>>
        /\ inflight' = inflight (-) SetToBag({d})
        /\ indexEffect' = (Len(updated) # Len(reports))
        /\ initMap(updated)
        /\ lastOp' = "ok"
        /\ UNCHANGED <<riskVars, pureVars, panelVars, narrVars, ashaVars, dashAuth, loading, error, emergencyReports,
                       selectedEmergency, emergencyPreviewUrl, deletingEmergencyId,
                       fetchPc, fetchedReports, emergStore>>

\* handleDeleteReport resumed after deleteAshaReport rejected (lines 309-316)
DeleteReportFailed(d) ==
    /\ Ready
    /\ BagIn(d, inflight)
    /\ d.kind = "report"
    /\ error' = MsgDeleteReport
    /\ deletingReportId' = <<>>
    /\ inflight' = inflight (-) SetToBag({d})
    /\ lastOp' = "failed"
    /\ UNCHANGED <<riskVars, pureVars, mapVars, panelVars, narrVars, ashaVars, dashAuth, loading, reports, emergencyReports,
                   selectedReport, previewUrl, selectedEmergency, emergencyPreviewUrl,
                   reportIndex, deletingEmergencyId, summary, fetchPc, fetchedReports,
                   indexEffect, fieldStore, emergStore>>

\* handleDeleteEmergency after the confirmation, up to the await of line
\* 404. The handler keeps the reports and selectedEmergency of the render
\* it was created in; of selectedEmergency it only uses the test of line 407.
DeleteEmergencyStart(report) ==
    /\ deletingEmergencyId' = <<report.id>>
    /\ error' = ""
    /\ inflight' = inflight (+) SetToBag(
           {[kind |-> "emergency", id |-> report.id,
             capReports |-> reports, capEmergencies |-> <<>>,
             capSelected |-> (selectedEmergency # <<>> /\ selectedEmergency[1].id = report.id)]})
    /\ lastOp' = "start"
    /\ UNCHANGED <<dashAuth, loading, reports, emergencyReports, selectedReport,
                   previewUrl, selectedEmergency, emergencyPreviewUrl, reportIndex,
                   deletingReportId, summary, fetchPc, fetchedReports, indexEffect,
                   fieldStore, emergStore>>

\* handleDeleteEmergency (lines 397-404), from a row's Delete button, which
\* is disabled while deletingEmergencyId is the row's report (line 628)
handleDeleteEmergency(report, confirmDelete) ==
    /\ Ready
    /\ ~loading
    /\ deletingEmergencyId # <<report.id>>
    /\ BagCardinality(inflight) < MaxInflight
    /\ IF confirmDelete
       THEN DeleteEmergencyStart(report)
       ELSE DeleteCancelled("emergency", report)
    /\ UNCHANGED <<riskVars, pureVars, mapVars, panelVars, narrVars, ashaVars>>

ClickDeleteEmergency ==
    \E k \in DOMAIN emergencyReports, c \in BOOLEAN :
        handleDeleteEmergency(emergencyReports[k], c)

\* handleDeleteEmergency resumed after deleteEmergencyReport resolved
\* (lines 405-413, 419-421)
DeleteEmergencyOk(d) ==
    LET updated == FilterOut(emergencyReports, d.id)
    IN  /\ Ready
        /\ BagIn(d, inflight)
        /\ d.kind = "emergency"
        /\ emergStore' = emergStore \ {d.id[2]}
        /\ emergencyReports' = updated
        /\ IF d.capSelected
           THEN selectedEmergency' = <<>> /\ emergencyPreviewUrl' = <<>>
           ELSE UNCHANGED <<selectedEmergency, emergencyPreviewUrl>>
        /\ summary' = computeSummary(d.capReports, updated)
        /\ deletingEmergencyId' = <<>>
        /\ inflight' = inflight (-) SetToBag({d})
        /\ lastOp' = "ok"
        /\ UNCHANGED <<riskVars, pureVars, mapVars, panelVars, narrVars, ashaVars, dashAuth, loading, error, reports,
                       selectedReport, previewUrl, reportIndex, deletingReportId,
                       fetchPc, fetchedReports, indexEffect, fieldStore>>

\* handleDeleteEmergency resumed after deleteEmergencyReport rejected
\* (lines 414-421)
DeleteEmergencyFailed(d) ==
    /\ Ready
    /\ BagIn(d, inflight)
    /\ d.kind = "emergency"
    /\ error' = MsgDeleteEmerg
    /\ deletingEmergencyId' = <<>>
    /\ inflight' = inflight (-) SetToBag({d})
    /\ lastOp' = "failed"
    /\ UNCHANGED <<riskVars, pureVars, mapVars, panelVars, narrVars, ashaVars, dashAuth, loading, reports, emergencyReports,
                   selectedReport, previewUrl, selectedEmergency, emergencyPreviewUrl,
                   reportIndex, deletingReportId, summary, fetchPc, fetchedReports,
                   indexEffect, fieldStore, emergStore>>

DeleteResolved ==
    \E d \in BagToSet(inflight) :
        \/ DeleteReportOk(d)
        \/ DeleteReportFailed(d)
        \/ DeleteEmergencyOk(d)
        \/ DeleteEmergencyFailed(d)

\* the list side of the dashboard: loading, the archive, the error banner
\* and the deletes, with the detail cards left closed
NextDash ==
    \/ DashLogin
    \/ FetchReportsOk
    \/ FetchFailed
    \/ FetchEmergenciesOk
    \/ IndexEffect
    \/ handlePrevReport
    \/ handleNextReport
    \/ DismissError
    \/ ClickDeleteReport
    \/ ClickDeleteEmergency
    \/ DeleteResolved

\* the same with the detail cards in use
NextDetail ==
    \/ NextDash
    \/ ViewReport
    \/ CloseReport
    \/ ViewEmergency
    \/ CloseEmergency

SpecDash == InitDash /\ [][NextDash]_vars

SpecDetail == InitDash /\ [][NextDetail]_vars

-----------------------------------------------------------------------------
(* The dashboard with the maps script absent or present at the start, and  *)
(* no emergency requests in the store: the load, the archive, the report   *)
(* deletes and the script's load and error events.                         *)

InitMap ==
    /\ riskInput = NoRiskInput
    /\ riskOut = "none"
    /\ AshaIdle
    /\ PanelIdle
    /\ NarrIdle
    /\ PureIdle
    /\ dashAuth = FALSE
    /\ loading = TRUE
    /\ error = ""
    /\ reports = <<>>
    /\ emergencyReports = <<>>
    /\ selectedReport = <<>>
    /\ previewUrl = <<>>
    /\ selectedEmergency = <<>>
    /\ emergencyPreviewUrl = <<>>
    /\ reportIndex = 0
    /\ deletingReportId = <<>>
    /\ deletingEmergencyId = <<>>
    /\ summary = [newReports |-> 0, highRisk |-> 0, emergencyCount |-> 0, topArea |-> "-"]
    /\ fetchPc = "idle"
    /\ fetchedReports = <<>>
    /\ indexEffect = FALSE
    /\ \E n \in {0, NumReports} : fieldStore = 1..n
    /\ emergStore = {}
    /\ inflight = EmptyBag
    /\ lastOp = NoOp
    /\ mapScript \in {"absent", "loaded"}
    /\ mapWaiting = <<>>
    /\ mapMarkers = <<>>
    /\ mapShown = EmptyBag

ReportDeleteResolved ==
    \E d \in BagToSet(inflight) :
        \/ DeleteReportOk(d)
        \/ DeleteReportFailed(d)

NextMap ==
    \/ DashLogin
    \/ FetchReportsOk
    \/ FetchFailed
    \/ FetchEmergenciesOk
    \/ IndexEffect
    \/ handlePrevReport
    \/ handleNextReport
    \/ ClickDeleteReport
    \/ ReportDeleteResolved
    \/ ScriptLoaded
    \/ ScriptFailed

SpecMap == InitMap /\ [][NextMap]_vars

-----------------------------------------------------------------------------
(* The two login gates side by side: the ASHA form and the dashboard, each *)
(* with its login and the operations behind it (submissions; the load).    *)

\* submissions explored per session in SpecLogin
MaxLoginSubmits == 1

InitLogin ==
    /\ PanelIdle
    /\ NarrIdle
    /\ MapIdle
    /\ PureIdle
    /\ riskInput = NoRiskInput
    /\ riskOut = "none"
    /\ saveVariant \in {"first", "second"}
    /\ online \in BOOLEAN
    /\ ashaAuth = FALSE
    /\ view = "form"
    /\ isSavingReport = FALSE
    /\ formStatus = ""
    /\ \E n \in InitHistoryLens : reportHistory = StoredHistory(n)
    /\ lastReportSummary = <<>>
    /\ clock = 0
    /\ pendingSave = NoSave
    /\ ashaStore = {}
    /\ saveCalls = {}
    /\ dashAuth = FALSE
    /\ loading = TRUE
    /\ error = ""
    /\ reports = <<>>
    /\ emergencyReports = <<>>
    /\ selectedReport = <<>>
    /\ previewUrl = <<>>
    /\ selectedEmergency = <<>>
    /\ emergencyPreviewUrl = <<>>
    /\ reportIndex = 0
    /\ deletingReportId = <<>>
    /\ deletingEmergencyId = <<>>
    /\ summary = [newReports |-> 0, highRisk |-> 0, emergencyCount |-> 0, topArea |-> "-"]
    /\ fetchPc = "idle"
    /\ fetchedReports = <<>>
    /\ indexEffect = FALSE
    /\ \E n \in {0, NumReports} : fieldStore = 1..n
    /\ \E m \in {0, NumEmerg} : emergStore = 1..m
    /\ inflight = EmptyBag
    /\ lastOp = NoOp

LoginSubmitOffline == clock < MaxLoginSubmits /\ SubmitOffline

LoginSubmitOnline == clock < MaxLoginSubmits /\ SubmitOnline

NextLogin ==
    \/ AshaLogin
    \/ GoOffline
    \/ GoOnline
    \/ LoginSubmitOffline
    \/ LoginSubmitOnline
    \/ SaveAccepted
    \/ SaveRejected
    \/ handleDraftAnotherReport
    \/ DashLogin
    \/ FetchReportsOk
    \/ FetchFailed
    \/ FetchEmergenciesOk
    \/ IndexEffect
    \/ DismissError

SpecLogin == InitLogin /\ [][NextLogin]_vars

-----------------------------------------------------------------------------
(* Claims about the dashboard's deletes, checked under SpecDash.           *)

Ids(list) == {list[k].id : k \in DOMAIN list}

\* the in-memory list and the collection a delete handler works on
ListOf(kind) == IF kind = "report" THEN reports ELSE emergencyReports
StoreOf(kind) == IF kind = "report" THEN fieldStore ELSE emergStore

\* the handlers that resumed in this step
Resumed == {d \in BagToSet(inflight) : CopiesIn(d, inflight') < CopiesIn(d, inflight)}

\* an item leaves a list only in the step in which the store confirms a
\* delete of that item
LeavesOnConfirm(list, listNext, store, storeNext, kind) ==
    \A k \in DOMAIN list :
        list[k].id \notin Ids(listNext) =>
            /\ list[k].id[2] \in store
            /\ list[k].id[2] \notin storeNext
            /\ \E d \in Resumed : d.kind = kind /\ d.id = list[k].id

(* C8 as stated: an item is removed from its list only after the store     *)
(* confirmed its delete; while a delete is in flight the item is in the    *)
(* list; when the store rejects the delete or the user cancels the         *)
(* confirmation, the lists are unchanged and an error message is set.      *)
C8_AsStated ==
    /\ [](\A d \in BagToSet(inflight) : d.id \in Ids(ListOf(d.kind)))
    /\ [][/\ LeavesOnConfirm(reports, reports', fieldStore, fieldStore', "report")
          /\ LeavesOnConfirm(emergencyReports, emergencyReports', emergStore,
                             emergStore', "emergency")
          /\ lastOp' \in {"failed", "cancel"} =>
                 /\ reports' = reports
                 /\ emergencyReports' = emergencyReports
                 /\ error' # ""]_vars

(* C8 amended: an item is removed from its list only in the step in which  *)
(* the store confirms a delete of it; while a delete is in flight and the  *)
(* store has not confirmed a delete of that item, the item is in the list; *)
(* when the store rejects a delete the lists are unchanged and an error    *)
(* message is set; when the user cancels the confirmation the lists and    *)
(* the error message are unchanged.                                        *)
C8_DeleteAfterConfirm ==
    /\ [](\A d \in BagToSet(inflight) :
             d.id[2] \in StoreOf(d.kind) => d.id \in Ids(ListOf(d.kind)))
    /\ [][/\ LeavesOnConfirm(reports, reports', fieldStore, fieldStore', "report")
          /\ LeavesOnConfirm(emergencyReports, emergencyReports', emergStore,
                             emergStore', "emergency")
          /\ lastOp' = "failed" =>
                 /\ reports' = reports
                 /\ emergencyReports' = emergencyReports
                 /\ fieldStore' = fieldStore
                 /\ emergStore' = emergStore
                 /\ error' \in {MsgDeleteReport, MsgDeleteEmerg}
          /\ lastOp' = "cancel" =>
                 /\ reports' = reports
                 /\ emergencyReports' = emergencyReports
                 /\ inflight' = inflight
                 /\ error' = error]_vars

\* a rejected report delete while an emergency delete is still in flight:
\* both items are still listed and the banner shows the store's message
C8_Witness ==
    /\ lastOp = "failed"
    /\ error = MsgDeleteReport
    /\ Len(reports) = NumReports
    /\ Len(emergencyReports) = NumEmerg
    /\ \E d \in BagToSet(inflight) :
           d.kind = "emergency" /\ d.id \in Ids(emergencyReports)

(* C9: a successful delete of report X removes exactly the entries with id *)
(* X from the report list; every other report remains with its fields,    *)
(* its risk label and its relative order, and the emergency list is        *)
(* unchanged.                                                              *)
PosIn(list, item) == CHOOSE k \in DOMAIN list : list[k] = item

C9_Step ==
    \A d \in Resumed :
        (d.kind = "report" /\ lastOp' = "ok") =>
            /\ \A k \in DOMAIN reports :
                   reports[k].id # d.id => \E j \in DOMAIN reports' : reports'[j] = reports[k]
            /\ \A j \in DOMAIN reports' :
                   /\ reports'[j].id # d.id
                   /\ \E k \in DOMAIN reports : reports[k] = reports'[j]
            /\ Len(reports') = Cardinality({k \in DOMAIN reports : reports[k].id # d.id})
            /\ \A i, j \in DOMAIN reports' :
                   i < j => PosIn(reports, reports'[i]) < PosIn(reports, reports'[j])
            /\ emergencyReports' = emergencyReports

C9_DeleteExactlyThatId == [][C9_Step]_vars

\* the newest report was deleted: the other one is listed, emergencies intact
C9_Witness ==
    /\ lastOp = "ok"
    /\ indexEffect
    /\ fieldStore = 2..NumReports
    /\ Len(reports) = NumReports - 1
    /\ reports[1] = Annotate(FieldDoc(2))
    /\ Len(emergencyReports) = NumEmerg

(* C10: while a delete for a given id is in flight no further delete for   *)
(* that id can be started until it resolves, also when deletes of other    *)
(* ids are started or resolve in the meantime.                             *)
C10_OneDeleteInFlightPerId ==
    /\ \A d \in BagToSet(inflight) : CopiesIn(d, inflight) = 1
    /\ \A d1, d2 \in BagToSet(inflight) :
           (d1.kind = d2.kind /\ d1.id = d2.id) => d1 = d2

-----------------------------------------------------------------------------
(* Claims about the archive, the summary and the detail cards.             *)

(* C11: after any sequence of loads, prev/next steps and deletes the       *)
(* archive index is within 0 .. count-1 when the report list is non-empty  *)
(* and 0 when it is empty, also in the render between a delete's list      *)
(* update and the run of the index reset effect.                           *)
C11_IndexInBounds ==
    IF reports = <<>> THEN reportIndex = 0
    ELSE reportIndex \in 0..(Len(reports) - 1)

\* the card was on the last report when that report's delete resolved: the
\* index was clamped and the reset effect has not run yet
C11_Witness ==
    /\ lastOp = "ok"
    /\ indexEffect
    /\ reports # <<>>
    /\ Len(reports) = NumReports - 1
    /\ NumReports \notin fieldStore
    /\ reportIndex = Len(reports) - 1

(* C12: whenever no load and no delete is in flight the summary agrees     *)
(* with the lists: highRisk is the number of High reports in the report    *)
(* list and emergencyCount is the length of the emergency list, after any  *)
(* interleaving of report deletes and emergency deletes.                   *)
C12_SummaryAgrees ==
    (inflight = EmptyBag /\ fetchPc \notin {"reports", "emergencies"}) =>
        /\ summary.highRisk = CountWhere(reports, IsHigh)
        /\ summary.emergencyCount = Len(emergencyReports)

(* C13: a report whose delete succeeded is gone from every in-memory view: *)
(* it is not in the report list and the detail card (selectedReport and    *)
(* its preview) does not show it, also when the card was opened while the  *)
(* delete was in flight; likewise for emergency requests and their card.   *)
(* Checked under SpecDetail.                                               *)
C13_DeletedGoneFromViews ==
    /\ \A id \in Ids(reports) : id[2] \in fieldStore
    /\ \A id \in Ids(emergencyReports) : id[2] \in emergStore
    /\ selectedReport # <<>> => selectedReport[1].id[2] \in fieldStore
    /\ previewUrl # <<>> => previewUrl[1][2] \in fieldStore
    /\ selectedEmergency # <<>> => selectedEmergency[1].id[2] \in emergStore
    /\ emergencyPreviewUrl # <<>> => emergencyPreviewUrl[1][2] \in emergStore

(* C14: after a successful login the load always ends with loading false.  *)
(* When both reads succeed the report list holds the stored reports, each  *)
(* annotated with its risk, and the emergency list the stored requests.    *)
(* When either read fails, the second one included, both lists are empty   *)
(* and the error banner is set; dismissing the banner changes nothing else *)
(* and no read is issued again.                                            *)
C14_LoadEnds ==
    (fetchPc # "done" /\ fetchPc' = "done") =>
        /\ loading
        /\ ~loading'
        /\ IF error' = MsgLoadFailed
           THEN reports' = <<>> /\ emergencyReports' = <<>>
           ELSE /\ fetchPc = "emergencies"
                /\ error' = ""
                /\ Len(reports') = Cardinality(fieldStore)
                /\ {id[2] : id \in Ids(reports')} = fieldStore
                /\ \A k \in DOMAIN reports' :
                       /\ reports'[k].risk \in {"High", "Medium", "Low"}
                       /\ reports'[k].risk = computeRiskLevel(reports'[k])
                /\ Len(emergencyReports') = Cardinality(emergStore)
                /\ {id[2] : id \in Ids(emergencyReports')} = emergStore

C14_Dismiss ==
    (error # "" /\ error' = "" /\ lastOp' = NoOp /\ dashAuth) =>
        UNCHANGED <<loading, reports, emergencyReports, summary, fetchPc, fetchedReports,
                    fieldStore, emergStore>>

C14_LoadOutcome ==
    /\ [][C14_LoadEnds]_vars
    /\ [][C14_Dismiss]_vars
    /\ [][fetchPc = "done" => fetchPc' = "done"]_vars
    /\ [](fetchPc = "done" => ~loading)
    /\ []((dashAuth /\ loading) => fetchPc \in {"reports", "emergencies"})
    /\ [](fetchPc # "done" => reports = <<>> /\ emergencyReports = <<>>)

\* a load that failed with reports in the store, the banner dismissed
C14_Witness ==
    /\ dashAuth
    /\ fetchPc = "done"
    /\ ~loading
    /\ error = ""
    /\ reports = <<>>
    /\ emergencyReports = <<>>
    /\ fieldStore # {}
    /\ emergStore # {}

(* C15: the dashboard and the ASHA form become authenticated only through  *)
(* a login submit whose trimmed user name and exact password are the fixed *)
(* pair; any other submit leaves the component unauthenticated with one    *)
(* and the same message whichever field was wrong; nothing is read from    *)
(* the store and nothing is submitted while unauthenticated; and an        *)
(* authenticated component never becomes unauthenticated again.            *)
(* Checked under SpecLogin.                                                *)
GoodPair(username, password) == trim(username) = CredUsername /\ password = CredPassword

C15_DashGate ==
    /\ (~dashAuth /\ dashAuth') =>
           \E u \in TypedUsernames, p \in TypedPasswords :
               GoodPair(u, p) /\ handleLogin(u, p)
    /\ \A u \in TypedUsernames, p \in TypedPasswords :
           (handleLogin(u, p) /\ ~GoodPair(u, p)) =>
               ~dashAuth' /\ error' = MsgBadOfficial
    /\ dashAuth => dashAuth'

C15_AshaGate ==
    /\ (~ashaAuth /\ ashaAuth') =>
           \E u \in TypedUsernames, p \in TypedPasswords :
               GoodPair(u, p) /\ handleLoginSubmit(u, p)
    /\ \A u \in TypedUsernames, p \in TypedPasswords :
           (handleLoginSubmit(u, p) /\ ~GoodPair(u, p)) =>
               ~ashaAuth' /\ formStatus' = MsgInvalid
    /\ ashaAuth => ashaAuth'
    /\ ~ashaAuth => reportHistory' = reportHistory

C15_LoginGate ==
    /\ [][C15_DashGate]_vars
    /\ [][C15_AshaGate]_vars
    /\ [](~dashAuth => /\ fetchPc = "idle"
                       /\ reports = <<>>
                       /\ emergencyReports = <<>>)
    /\ [](~ashaAuth => /\ clock = 0
                       /\ saveCalls = {}
                       /\ ashaStore = {}
                       /\ ~pendingSave.pending)

\* the dashboard has refused a login and has read nothing, while the ASHA
\* form, let in, has taken a submission
C15_Witness ==
    /\ ~dashAuth
    /\ error = MsgBadOfficial
    /\ fetchPc = "idle"
    /\ ashaAuth
    /\ clock = 1

(* C19: whenever the number of reports in the list changes (the load, a    *)
(* successful delete) the archive index is reset to 0 once the update has  *)
(* settled, whatever the index was and wherever the deleted report stood:  *)
(* the change schedules the reset, and the reset is the next thing that    *)
(* happens and leaves the index at 0 on the same list.                     *)
C19_Step ==
    /\ Len(reports') # Len(reports) => indexEffect'
    /\ indexEffect => /\ reportIndex' = 0
                      /\ ~indexEffect'
                      /\ reports' = reports

C19_ResetOnCountChange == [][C19_Step]_vars

\* a delete left the clamped index on a later card: the reset is scheduled
C19_Witness ==
    /\ lastOp = "ok"
    /\ indexEffect
    /\ Len(reports) = NumReports - 1
    /\ reportIndex >= 1

(* C20: with n >= 1 reports and index i, next gives (i + 1) mod n and prev *)
(* gives (i - 1 + n) mod n: next from n-1 gives 0, prev from 0 gives n-1,  *)
(* each undoes the other, and n next steps return to i; with no reports    *)
(* both give 0. A navigation step moves the index by one of the two.       *)
RECURSIVE NextTimes(_, _, _)
NextTimes(k, i, n) == IF k = 0 THEN i ELSE NextTimes(k - 1, NextIndex(i, n), n)

C20_Algebra ==
    LET n == Len(reports)
    IN  /\ \A i \in 0..(n - 1) :
               /\ NextIndex(i, n) = (IF i = n - 1 THEN 0 ELSE i + 1)
               /\ PrevIndex(i, n) = (IF i = 0 THEN n - 1 ELSE i - 1)
               /\ PrevIndex(NextIndex(i, n), n) = i
               /\ NextIndex(PrevIndex(i, n), n) = i
               /\ NextTimes(n, i, n) = i
        /\ n = 0 => NextIndex(reportIndex, n) = 0 /\ PrevIndex(reportIndex, n) = 0

C20_Step ==
    (reportIndex' # reportIndex /\ ~indexEffect /\ reports' = reports) =>
        \/ reportIndex' = (IF reportIndex = Len(reports) - 1 THEN 0 ELSE reportIndex + 1)
        \/ reportIndex' = (IF reportIndex = 0 THEN Len(reports) - 1 ELSE reportIndex - 1)

C20_PrevNextWrap == [](C20_Algebra) /\ [][C20_Step]_vars

\* the card stands on the last of all loaded reports, its delete not asked for
C20_Witness ==
    /\ Len(reports) = NumReports
    /\ NumReports >= 2
    /\ reportIndex = Len(reports) - 1
    /\ ~indexEffect
    /\ inflight = EmptyBag

-----------------------------------------------------------------------------
(* The sensor, graph and prediction panel of the dashboard (part_003 lines *)
(* 131-189 and 504-591, sensorService.js). A request is put in panelReqs   *)
(* when it is issued, together with what the backend answers, and taken    *)
(* out when the code that awaits it resumes.                               *)

\* requests of the panel that may be awaiting their answer at one time
MaxPanelReqs == 2

\* longest list of readings the backend answers with
MaxReadings == 1

MsgStartSensors == "Failed to start sensors: Cannot connect to backend server. Make sure the backend is running on port 8000."
MsgStopSensors  == "Failed to stop sensors: Failed to stop sensors"
MsgStartGraph   == "Failed to start live graph: Failed to start live graph"
MsgStopGraph    == "Failed to stop live graph: Failed to stop live graph"
MsgPredict      == "ML Prediction failed: Prediction failed"

\* the dashboard state the panel's handlers do not write
dashRest == <<dashAuth, loading, reports, emergencyReports, selectedReport, previewUrl,
              selectedEmergency, emergencyPreviewUrl, reportIndex, deletingReportId,
              deletingEmergencyId, summary, fetchPc, fetchedReports, indexEffect,
              fieldStore, emergStore, inflight, lastOp>>

Readings(k) == [i \in 1..k |-> <<"reading", i>>]

\* a request and its answer: failed says that fetch rejected or answered
\* with a non-2xx status; sensor and graph are the two answers of a status
\* check ("on", "off", "failed"); data is the answer to getSensorData
Req(op, failed, sensor, graph, data) ==
    [op |-> op, failed |-> failed, sensor |-> sensor, graph |-> graph, data |-> data]

Command(op, failed) == Req(op, failed, "", "", <<>>)

StatusAnswers == {"on", "off", "failed"}

\* getSensorData (sensorService.js 101-110): the readings, or { data: [] }
\* when the request failed
DataRequests ==
    {Req("data", FALSE, "", "", Readings(k)) : k \in 0..MaxReadings}
        \cup {Req("data", TRUE, "", "", <<>>)}

HasRoom(n) == BagCardinality(panelReqs) + n <= MaxPanelReqs

\* Date.now() as getGraphImageUrl reads it (sensorService.js 112-115)
ImageStamps == {1, 2}

SensorEffect_NoCleanup(now, data, reqs, effectReq) ==
    IF now = sensorsRunning THEN /\ sensorData' = data
                                 /\ panelReqs' = reqs
                                 /\ dataTimers' = dataTimers
    ELSE IF ~now THEN /\ sensorData' = <<>>
                      /\ panelReqs' = reqs
                      /\ dataTimers' = dataTimers
    ELSE /\ sensorData' = data
         /\ panelReqs' = reqs (+) SetToBag({effectReq})
         /\ dataTimers' = dataTimers + 1

\* the [isAuthenticated, sensorsRunning] effect (lines 151-171) after a
\* render with sensorsRunning = now: nothing when the value did not change;
\* when sensors stopped, the cleanup of the previous run (clearInterval,
\* line 170) and setSensorData([]); when they started, fetchSensorData()
\* and setInterval (the previous run returned no cleanup)
SensorEffect(now, data, reqs, effectReq) ==
    IF now = sensorsRunning THEN /\ sensorData' = data
                                 /\ panelReqs' = reqs
                                 /\ dataTimers' = dataTimers
    ELSE IF ~now THEN /\ sensorData' = <<>>
                      /\ panelReqs' = reqs
                      /\ dataTimers' = dataTimers - 1
    ELSE /\ sensorData' = data
         /\ panelReqs' = reqs (+) SetToBag({effectReq})
         /\ dataTimers' = dataTimers + 1

\* the [isAuthenticated, graphRunning] effect (lines 174-189) after a
\* render with graphRunning = now: nothing when the value did not change;
\* when the graph stopped, the cleanup of the previous run (line 188) and
\* setGraphImageUrl(''); when it started, updateGraphImage() and setInterval
GraphEffect(now) ==
    IF now = graphRunning THEN UNCHANGED <<graphImageUrl, graphTimers>>
    ELSE IF ~now THEN /\ graphImageUrl' = <<>>
                      /\ graphTimers' = graphTimers - 1
    ELSE /\ \E t \in ImageStamps : graphImageUrl' = <<t>>
         /\ graphTimers' = graphTimers + 1

\* handleLogin of part_003 (lines 452-463); on success the
\* [isAuthenticated] effects run: fetchData to its first await (lines
\* 103-128), checkStatus() to its first await and setInterval (lines
\* 145-146); the sensor data and graph effects find nothing running and
\* clear what they show (lines 152-154, 175-177)
PanelLogin(username, password) ==
    /\ ~dashAuth
    /\ IF trim(username) = CredUsername /\ password = CredPassword
       THEN /\ dashAuth' = TRUE
            /\ error' = ""
            /\ loading' = TRUE
            /\ fetchPc' = "reports"
            /\ statusTimers' = statusTimers + 1
            /\ sensorData' = <<>>
            /\ graphImageUrl' = <<>>
            /\ \E s \in StatusAnswers, g \in StatusAnswers :
                   panelReqs' = panelReqs (+)
                       SetToBag({Req("status", s = "failed" \/ g = "failed", s, g, <<>>)})
       ELSE /\ error' = MsgBadOfficial
            /\ UNCHANGED <<dashAuth, loading, fetchPc, statusTimers, sensorData,
                           graphImageUrl, panelReqs>>
    /\ lastOp' = NoOp
    /\ UNCHANGED <<riskVars, pureVars, mapVars, narrVars, ashaVars, reports, emergencyReports,
                   selectedReport, previewUrl, selectedEmergency, emergencyPreviewUrl,
                   reportIndex, deletingReportId, deletingEmergencyId, summary,
                   fetchedReports, indexEffect, fieldStore, emergStore, inflight,
                   sensorsRunning, graphRunning, mlPredictionResult, mlLoading,
                   dataTimers, graphTimers>>

PanelLoginSubmit == \E u \in TypedUsernames, p \in TypedPasswords : PanelLogin(u, p)

\* checkStatus is called by a tick of its 5 s timer (lines 134-137, 146)
checkStatus ==
    /\ statusTimers >= 1
    /\ HasRoom(1)
    /\ \E s \in StatusAnswers, g \in StatusAnswers :
           panelReqs' = panelReqs (+)
               SetToBag({Req("status", s = "failed" \/ g = "failed", s, g, <<>>)})
    /\ UNCHANGED <<riskVars, pureVars, mapVars, ashaVars, narrVars, dashRest, statusTimers, error, sensorsRunning,
                   graphRunning, sensorData, mlPredictionResult, mlLoading,
                   graphImageUrl, dataTimers, graphTimers>>

\* checkStatus resumed (lines 138-139); getSensorStatus and getGraphStatus
\* answer { running: false } for a failed request (sensorService.js 45-54,
\* 90-99)
StatusApplied(q) ==
    /\ dashAuth
    /\ BagIn(q, panelReqs)
    /\ q.op = "status"
    /\ sensorsRunning' = (q.sensor = "on")
    /\ graphRunning' = (q.graph = "on")
    /\ \E e \in DataRequests :
           SensorEffect(q.sensor = "on", sensorData, panelReqs (-) SetToBag({q}), e)
    /\ GraphEffect(q.graph = "on")
    /\ UNCHANGED <<riskVars, pureVars, mapVars, ashaVars, narrVars, dashRest, statusTimers, error, mlPredictionResult,
                   mlLoading>>

fetchSensorData_WaitsForAnswer ==
    /\ dataTimers >= 1
    /\ HasRoom(1)
    /\ \A q \in BagToSet(panelReqs) : q.op # "data"
    /\ \E e \in DataRequests : panelReqs' = panelReqs (+) SetToBag({e})
    /\ UNCHANGED <<riskVars, pureVars, mapVars, ashaVars, narrVars, dashRest, statusTimers, error, sensorsRunning,
                   graphRunning, sensorData, mlPredictionResult, mlLoading,
                   graphImageUrl, dataTimers, graphTimers>>

\* fetchSensorData is called by a tick of its 5 s timer (lines 157-159, 169)
fetchSensorData ==
    /\ dataTimers >= 1
    /\ HasRoom(1)
    /\ \E e \in DataRequests : panelReqs' = panelReqs (+) SetToBag({e})
    /\ UNCHANGED <<riskVars, pureVars, mapVars, ashaVars, narrVars, dashRest, statusTimers, error, sensorsRunning,
                   graphRunning, sensorData, mlPredictionResult, mlLoading,
                   graphImageUrl, dataTimers, graphTimers>>

\* updateGraphImage is called by a tick of its 2 s timer (lines 180-183,
\* 187)
updateGraphImage ==
    /\ graphTimers >= 1
    /\ \E t \in ImageStamps : graphImageUrl' = <<t>>
    /\ UNCHANGED <<riskVars, pureVars, mapVars, ashaVars, narrVars, dashRest, statusTimers, error, sensorsRunning,
                   graphRunning, sensorData, mlPredictionResult, mlLoading, panelReqs,
                   dataTimers, graphTimers>>

\* setSensorData(data.data || []) (lines 160, 515)
DataApplied(q) ==
    /\ dashAuth
    /\ BagIn(q, panelReqs)
    /\ q.op = "data"
    /\ sensorData' = q.data
    /\ panelReqs' = panelReqs (-) SetToBag({q})
    /\ UNCHANGED <<riskVars, pureVars, mapVars, ashaVars, narrVars, dashRest, statusTimers, error, sensorsRunning,
                   graphRunning, mlPredictionResult, mlLoading,
                   graphImageUrl, dataTimers, graphTimers>>

\* handleStartSensors to its await (lines 504-508); the Start button is
\* disabled while sensorsRunning (line 655)
handleStartSensors ==
    /\ dashAuth
    /\ ~sensorsRunning
    /\ HasRoom(1)
    /\ error' = ""
    /\ sensorData' = <<>>
    /\ \E f \in BOOLEAN : panelReqs' = panelReqs (+) SetToBag({Command("startSensors", f)})
    /\ UNCHANGED <<riskVars, pureVars, mapVars, ashaVars, narrVars, dashRest, statusTimers, sensorsRunning, graphRunning,
                   mlPredictionResult, mlLoading,
                   graphImageUrl, dataTimers, graphTimers>>

\* handleStartSensors resumed: lines 509-521 when startSensors resolved
\* (its own fetchData request, then the effect), 522-526 when it rejected
StartSensorsReturned(q) ==
    /\ dashAuth
    /\ BagIn(q, panelReqs)
    /\ q.op = "startSensors"
    /\ IF q.failed
       THEN /\ error' = MsgStartSensors
            /\ sensorsRunning' = FALSE
            /\ SensorEffect(FALSE, sensorData, panelReqs (-) SetToBag({q}), q)
       ELSE /\ HasRoom(1)
            /\ error' = error
            /\ sensorsRunning' = TRUE
            /\ \E own \in DataRequests, e \in DataRequests :
                   SensorEffect(TRUE, sensorData,
                                (panelReqs (-) SetToBag({q})) (+) SetToBag({own}), e)
    /\ UNCHANGED <<riskVars, pureVars, mapVars, ashaVars, narrVars, dashRest, statusTimers, graphRunning,
                   mlPredictionResult, mlLoading,
                   graphImageUrl, graphTimers>>

\* handleStopSensors to its await (lines 529-531); the Stop button is
\* disabled unless sensorsRunning (line 671)
handleStopSensors ==
    /\ dashAuth
    /\ sensorsRunning
    /\ HasRoom(1)
    /\ \E f \in BOOLEAN : panelReqs' = panelReqs (+) SetToBag({Command("stopSensors", f)})
    /\ UNCHANGED <<riskVars, pureVars, mapVars, ashaVars, narrVars, dashRest, statusTimers, error, sensorsRunning,
                   graphRunning, sensorData, mlPredictionResult, mlLoading,
                   graphImageUrl, dataTimers, graphTimers>>

\* handleStopSensors resumed (lines 532-536)
StopSensorsReturned(q) ==
    /\ dashAuth
    /\ BagIn(q, panelReqs)
    /\ q.op = "stopSensors"
    /\ IF q.failed
       THEN /\ error' = MsgStopSensors
            /\ panelReqs' = panelReqs (-) SetToBag({q})
            /\ UNCHANGED <<sensorsRunning, sensorData, dataTimers>>
       ELSE /\ error' = ""
            /\ sensorsRunning' = FALSE
            /\ SensorEffect(FALSE, sensorData, panelReqs (-) SetToBag({q}), q)
    /\ UNCHANGED <<riskVars, pureVars, mapVars, ashaVars, narrVars, dashRest, statusTimers, graphRunning,
                   mlPredictionResult, mlLoading,
                   graphImageUrl, graphTimers>>

\* handleStartGraph / handleStopGraph to their await (lines 539-541,
\* 549-551); the buttons are disabled by graphRunning (lines 694, 710)
handleStartGraph ==
    /\ dashAuth
    /\ ~graphRunning
    /\ HasRoom(1)
    /\ \E f \in BOOLEAN : panelReqs' = panelReqs (+) SetToBag({Command("startGraph", f)})
    /\ UNCHANGED <<riskVars, pureVars, mapVars, ashaVars, narrVars, dashRest, statusTimers, error, sensorsRunning,
                   graphRunning, sensorData, mlPredictionResult, mlLoading,
                   graphImageUrl, dataTimers, graphTimers>>

handleStopGraph ==
    /\ dashAuth
    /\ graphRunning
    /\ HasRoom(1)
    /\ \E f \in BOOLEAN : panelReqs' = panelReqs (+) SetToBag({Command("stopGraph", f)})
    /\ UNCHANGED <<riskVars, pureVars, mapVars, ashaVars, narrVars, dashRest, statusTimers, error, sensorsRunning,
                   graphRunning, sensorData, mlPredictionResult, mlLoading,
                   graphImageUrl, dataTimers, graphTimers>>

\* handleStartGraph / handleStopGraph resumed (lines 542-546, 552-556)
GraphReturned(q) ==
    /\ dashAuth
    /\ BagIn(q, panelReqs)
    /\ q.op \in {"startGraph", "stopGraph"}
    /\ IF q.failed
       THEN /\ error' = (IF q.op = "startGraph" THEN MsgStartGraph ELSE MsgStopGraph)
            /\ graphRunning' = graphRunning
            /\ UNCHANGED <<graphImageUrl, graphTimers>>
       ELSE /\ error' = ""
            /\ graphRunning' = (q.op = "startGraph")
            /\ GraphEffect(q.op = "startGraph")
    /\ panelReqs' = panelReqs (-) SetToBag({q})
    /\ UNCHANGED <<riskVars, pureVars, mapVars, ashaVars, narrVars, dashRest, statusTimers, sensorsRunning, sensorData,
                   mlPredictionResult, mlLoading,
                   dataTimers>>

\* what /api/predict answers with
PredictionPayload == [riskLevel |-> "High", riskScore |-> 87]

\* handleMlPredict to its await (lines 565-583); the Predict button is
\* disabled while mlLoading (line 807)
handleMlPredict ==
    /\ dashAuth
    /\ ~mlLoading
    /\ HasRoom(1)
    /\ mlLoading' = TRUE
    /\ mlPredictionResult' = <<>>
    /\ error' = ""
    /\ \E f \in BOOLEAN : panelReqs' = panelReqs (+) SetToBag({Command("predict", f)})
    /\ UNCHANGED <<riskVars, pureVars, mapVars, ashaVars, narrVars, dashRest, statusTimers, sensorsRunning, graphRunning,
                   sensorData,
                   graphImageUrl, dataTimers, graphTimers>>

\* handleMlPredict resumed (lines 584-590)
PredictReturned(q) ==
    /\ dashAuth
    /\ BagIn(q, panelReqs)
    /\ q.op = "predict"
    /\ IF q.failed
       THEN /\ error' = MsgPredict
            /\ mlPredictionResult' = mlPredictionResult
       ELSE /\ error' = error
            /\ mlPredictionResult' = <<PredictionPayload>>
    /\ mlLoading' = FALSE
    /\ panelReqs' = panelReqs (-) SetToBag({q})
    /\ UNCHANGED <<riskVars, pureVars, mapVars, ashaVars, narrVars, dashRest, statusTimers, sensorsRunning, graphRunning,
                   sensorData,
                   graphImageUrl, dataTimers, graphTimers>>

PanelReturns ==
    \E q \in BagToSet(panelReqs) :
        \/ StatusApplied(q)
        \/ DataApplied(q)
        \/ StartSensorsReturned(q)
        \/ StopSensorsReturned(q)
        \/ GraphReturned(q)
        \/ PredictReturned(q)

\* the dashboard of part_003 over an empty store
InitPanel ==
    /\ riskInput = NoRiskInput
    /\ riskOut = "none"
    /\ AshaIdle
    /\ DashIdle
    /\ PanelIdle
    /\ NarrIdle
    /\ MapIdle
    /\ PureIdle

NextPanel ==
    \/ PanelLoginSubmit
    \/ FetchReportsOk
    \/ FetchFailed
    \/ FetchEmergenciesOk
    \/ DismissError
    \/ checkStatus
    \/ fetchSensorData
    \/ updateGraphImage
    \/ handleStartSensors
    \/ handleStopSensors
    \/ handleStartGraph
    \/ handleStopGraph
    \/ handleMlPredict
    \/ PanelReturns

SpecPanel == InitPanel /\ [][NextPanel]_vars

\* the requests whose awaiting code resumed in this step
PanelReturned ==
    {q \in BagToSet(panelReqs) : CopiesIn(q, panelReqs') < CopiesIn(q, panelReqs)}

(* C16: every I/O failure is surfaced to the user and nothing is retried   *)
(* automatically: when a request of the panel (status check, sensor data,  *)
(* sensor or graph start/stop, prediction) has failed, the step in which   *)
(* its answer is handled leaves a visible error message and issues no      *)
(* request. Checked under SpecPanel.                                       *)
C16_Step ==
    \A q \in PanelReturned :
        q.failed =>
            /\ error' # ""
            /\ \A r \in BagToSet(panelReqs') : CopiesIn(r, panelReqs') <= CopiesIn(r, panelReqs)

C16_FailuresSurfaced == [][C16_Step]_vars

(* C18: a failed prediction request degrades to a fallback payload: after  *)
(* handleMlPredict has failed a prediction result is shown and mlLoading   *)
(* is false. Checked under SpecPanel.                                      *)
C18_Step ==
    \A q \in PanelReturned :
        (q.op = "predict" /\ q.failed) =>
            /\ mlPredictionResult' # <<>>
            /\ ~mlLoading'

C18_PredictionFallback == [][C18_Step]_vars

\* the poll requests that have not returned
PendingPolls(op) == {q \in BagToSet(panelReqs) : q.op = op}

(* C24: every polling tick is independent: while a poller's timer exists   *)
(* its next tick can be issued whatever earlier ticks are doing (failed,   *)
(* or still awaiting their answer), and the step in which the answer of a  *)
(* status or data tick is handled, failed or not, stops no timer whose     *)
(* enabling condition still holds. Checked under SpecPanel, in which       *)
(* HasRoom bounds the requests in flight.                                  *)
C24_TickPossible ==
    /\ (dashAuth /\ HasRoom(1)) => ENABLED checkStatus
    /\ (dashAuth /\ sensorsRunning /\ HasRoom(1)) => ENABLED fetchSensorData
    /\ (dashAuth /\ graphRunning) => ENABLED updateGraphImage

C24_Step ==
    \A q \in PanelReturned :
        q.op \in {"status", "data"} =>
            /\ statusTimers' = statusTimers
            /\ sensorsRunning' => dataTimers' >= 1
            /\ graphRunning' => graphTimers' >= 1

C24_TicksIndependent == [](C24_TickPossible) /\ [][C24_Step]_vars

\* the answer of a data tick has been applied while a failed data tick is
\* still awaited, the graph image has been refreshed, and all timers live
C24_Witness ==
    /\ sensorsRunning
    /\ graphRunning
    /\ sensorData # <<>>
    /\ graphImageUrl # <<>>
    /\ \E q \in PendingPolls("data") : q.failed
    /\ statusTimers = 1
    /\ dataTimers = 1
    /\ graphTimers = 1

(* C25: polling timers are tied to their enabling condition: each poller   *)
(* has at most one interval timer; the status timer exists exactly while   *)
(* authenticated, the sensor data timer exactly while authenticated with   *)
(* sensors running, the graph timer exactly while authenticated with the   *)
(* graph running. Checked under SpecPanel.                                 *)
C25_TimersTied ==
    /\ statusTimers = (IF dashAuth THEN 1 ELSE 0)
    /\ dataTimers = (IF dashAuth /\ sensorsRunning THEN 1 ELSE 0)
    /\ graphTimers = (IF dashAuth /\ graphRunning THEN 1 ELSE 0)

\* sensors have run and were stopped (readings of a late answer are still
\* shown) and their timer is gone, while the graph's timer lives
C25_Witness ==
    /\ dashAuth
    /\ ~sensorsRunning
    /\ sensorData # <<>>
    /\ dataTimers = 0
    /\ graphRunning
    /\ graphTimers = 1

(* C27: the displayed sensor readings are empty whenever sensors are not   *)
(* running, even when a sensor data request issued before the stop returns *)
(* after it. Checked under SpecPanel.                                      *)
C27_EmptyWhenStopped == ~sensorsRunning => sensorData = <<>>

-----------------------------------------------------------------------------
(* generateDiseaseAnalysis (part_003 lines 1360-1661). A model's answer is *)
(* a rejection, an empty text, or a text: a JSON value, possibly inside a  *)
(* markdown fence, possibly with prose around it.                          *)

\* longest disease / recommendation list a model answers with
MaxListed == 5

Names(tag, k) == [i \in 1..k |-> <<tag, i>>]

\* what the parsed object holds under a key: nothing, a non-array, an array
FieldValues(tag) ==
    {[has |-> "missing"], [has |-> "other"]}
        \cup {[has |-> "array", items |-> Names(tag, k)] : k \in 0..MaxListed}

JsonValues ==
    {[type |-> "garbage"], [type |-> "null"], [type |-> "number"], [type |-> "array"]}
        \cup {[type |-> "object", diseases |-> d, recommendations |-> r] :
                  d \in FieldValues("disease"), r \in FieldValues("action")}

ResponseTexts == {[fenced |-> f, prose |-> p, json |-> j] :
                     f \in BOOLEAN, p \in BOOLEAN, j \in JsonValues}

ModelAnswers ==
    {Rejects, [kind |-> "empty"]} \cup {[kind |-> "text", text |-> x] : x \in ResponseTexts}

Threw == [threw |-> TRUE]

\* getFallbackDiseases / getFallbackRecommendations (lines 1644-1660)
getFallbackDiseases == <<>>

getFallbackRecommendations ==
    <<"Boil water before drinking",
      "Monitor and report water quality regularly",
      "Use water filters or purification systems when available",
      "Contact local health authorities if water quality concerns persist">>

\* jsonText.replace(/```json\n?/g, '').replace(/```\n?/g, '') (line 1431)
StripFences(x) == [x EXCEPT !.fenced = FALSE]

\* jsonText.match(/\{[\s\S]*\}/) (lines 1435-1439): the text from the first
\* brace to the last, when there is one
ExtractObject(x) == IF x.json.type = "object" THEN [x EXCEPT !.prose = FALSE] ELSE x

SliceTo_All(list, n) == list

\* Array.prototype.slice(0, n)
SliceTo(list, n) == IF Len(list) <= n THEN list ELSE SubSeq(list, 1, n)

\* parseGeminiResponse (lines 1423-1463): JSON.parse throws on a fence, on
\* prose and on garbage; a property read on null throws; any other value
\* is read for its two arrays
parseGeminiResponse(responseText) ==
    LET cleaned == ExtractObject(StripFences(responseText))
        parsed == cleaned.json
        diseases ==
            IF parsed.type = "object" /\ parsed.diseases.has = "array"
            THEN SliceTo(parsed.diseases.items, 3) ELSE <<>>
        recommendations ==
            IF parsed.type = "object" /\ parsed.recommendations.has = "array"
            THEN SliceTo(parsed.recommendations.items, 4) ELSE <<>>
    IN  IF cleaned.fenced \/ cleaned.prose \/ parsed.type \in {"garbage", "null"}
        THEN Threw
        ELSE [threw |-> FALSE,
              diseases |-> IF diseases # <<>> THEN diseases ELSE getFallbackDiseases,
              recommendations |-> IF recommendations # <<>> THEN recommendations
                                  ELSE getFallbackRecommendations]

\* one model call and the handling of its response (lines 1556-1577, 1586-1606)
Attempt(answer) ==
    IF answer.kind = "text" THEN parseGeminiResponse(answer.text) ELSE Threw

\* generateDiseaseAnalysis (lines 1470-1638). Whatever the primary attempt
\* throws is caught at line 1579 and the fallback model is called; what that
\* attempt throws reaches the outer catch with useFallback set, which
\* returns the fallback data.
generateDiseaseAnalysis(configured, primary, fallback) ==
    IF ~configured THEN Threw
    ELSE IF ~Attempt(primary).threw THEN Attempt(primary)
    ELSE IF ~Attempt(fallback).threw THEN Attempt(fallback)
    ELSE [threw |-> FALSE,
          diseases |-> getFallbackDiseases,
          recommendations |-> getFallbackRecommendations,
          error |-> "message"]

InitNarr ==
    /\ riskInput = NoRiskInput
    /\ riskOut = "none"
    /\ AshaIdle
    /\ DashIdle
    /\ PanelIdle
    /\ MapIdle
    /\ PureIdle
    /\ narrConfigured \in BOOLEAN
    /\ narrPrimary \in ModelAnswers
    /\ narrFallback \in ModelAnswers
    /\ narrOut = NotCalled

Analyse ==
    /\ narrOut = NotCalled
    /\ narrOut' = generateDiseaseAnalysis(narrConfigured, narrPrimary, narrFallback)
    /\ UNCHANGED <<riskVars, pureVars, mapVars, ashaVars, dashVars, panelVars, narrConfigured, narrPrimary,
                   narrFallback>>

NextNarr == Analyse

SpecNarr == InitNarr /\ [][NextNarr]_vars

(* C17: with the client configured generateDiseaseAnalysis does not throw  *)
(* and returns at most 3 diseases and at most 4 recommendations, the       *)
(* recommendations never empty; when neither model call yields a text that *)
(* holds a JSON object, the result is the fixed default recommendations    *)
(* with an empty disease list.                                             *)
Unusable(answer) == answer.kind # "text" \/ answer.text.json.type # "object"

C17_NarrativeSafe ==
    (narrOut # NotCalled /\ narrConfigured) =>
        /\ ~narrOut.threw
        /\ Len(narrOut.diseases) <= 3
        /\ Len(narrOut.recommendations) <= 4
        /\ narrOut.recommendations # <<>>
        /\ (Unusable(narrPrimary) /\ Unusable(narrFallback)) =>
               /\ narrOut.diseases = <<>>
               /\ narrOut.recommendations = getFallbackRecommendations

\* the primary call rejected and the fallback model listed more than fits,
\* inside a fence and with prose around the object
C17_Witness ==
    /\ narrOut # NotCalled
    /\ narrConfigured
    /\ narrPrimary = Rejects
    /\ narrFallback.kind = "text"
    /\ narrFallback.text.fenced
    /\ narrFallback.text.prose
    /\ narrFallback.text.json.type = "object"
    /\ narrFallback.text.json.diseases = [has |-> "array", items |-> Names("disease", MaxListed)]
    /\ narrFallback.text.json.recommendations =
           [has |-> "array", items |-> Names("action", MaxListed)]
    /\ narrOut.diseases = Names("disease", 3)
    /\ narrOut.recommendations = Names("action", 4)

-----------------------------------------------------------------------------
(* Specification of the risk scorer: any report, then one call.            *)

InitRisk ==
    /\ PanelIdle
    /\ NarrIdle
    /\ MapIdle
    /\ PureIdle
    /\ riskInput \in RiskInputs
    /\ riskOut = "none"
    /\ AshaIdle
    /\ DashIdle

Score ==
    /\ riskOut = "none"
    /\ riskOut' = computeRiskLevel(riskInput)
    /\ UNCHANGED <<riskInput, ashaVars, dashVars, panelVars, narrVars, mapVars, pureVars>>

NextRisk == Score

SpecRisk == InitRisk /\ [][NextRisk]_vars

-----------------------------------------------------------------------------
(* C1: computeRiskLevel returns High iff total >= 5, Medium iff            *)
(* 3 <= total <= 4 and Low iff total <= 2, where total is 2 for            *)
(* diarrhoea or vomiting in any letter case, +1 for fever, +2 for          *)
(* waterDirty yes, +1 for flooding yes, +2 for peopleCount >= 20, else +1  *)
(* for peopleCount >= 10.                                                  *)

\* the spellings of each symptom among SymptomLabels, listed by hand
SpelledDiarrhoeaOrVomiting == {SymDiarrhoea, SymDiarrhoeaLc, SymVomitingUc}
SpelledFever == {SymFever, SymFeverUc}

C1_Total ==
    LET n == IF riskInput.peopleCount = <<>> THEN 0 ELSE riskInput.peopleCount[1]
    IN  (IF riskInput.mainSymptoms \cap SpelledDiarrhoeaOrVomiting # {} THEN 2 ELSE 0)
      + (IF riskInput.mainSymptoms \cap SpelledFever # {} THEN 1 ELSE 0)
      + (IF riskInput.waterDirty = "yes" THEN 2 ELSE 0)
      + (IF riskInput.flooding = "yes" THEN 1 ELSE 0)
      + (CASE n >= 20 -> 2 [] n >= 10 /\ n < 20 -> 1 [] n < 10 -> 0)

C1_RiskLabel ==
    riskOut # "none" =>
        /\ riskOut \in {"Low", "Medium", "High"}
        /\ (riskOut = "High") <=> (C1_Total >= 5)
        /\ (riskOut = "Medium") <=> (C1_Total >= 3 /\ C1_Total <= 4)
        /\ (riskOut = "Low") <=> (C1_Total <= 2)

\* a mixed-case report scored exactly 5: VOMITING + FEVER + dirty water, 9 people
C1_Witness ==
    /\ riskOut = "High"
    /\ riskInput.mainSymptoms = {SymVomitingUc, SymFeverUc}
    /\ riskInput.waterDirty = "yes"
    /\ riskInput.flooding = "no"
    /\ riskInput.peopleCount = <<9>>

(* C29: the label is monotone in the risk factors: adding a symptom,       *)
(* switching waterDirty or flooding from no to yes, or raising peopleCount *)
(* (a missing count standing for 0) never lowers the label in the order    *)
(* Low < Medium < High; and the score lies in 0..8.                        *)
LabelRank(label) == CASE label = "Low" -> 1 [] label = "Medium" -> 2 [] label = "High" -> 3

\* the reports that differ from r by one raised risk factor
RaisedOnce(r) ==
    {[r EXCEPT !.mainSymptoms = @ \cup {s}] : s \in SymptomLabels}
        \cup {[r EXCEPT !.waterDirty = "yes"], [r EXCEPT !.flooding = "yes"]}
        \cup {[r EXCEPT !.peopleCount = <<n>>] :
                  n \in {m \in 0..MaxPeople : m >= NumberOrZero(r.peopleCount)}}

C29_Monotone ==
    riskOut # "none" =>
        /\ RiskScore(riskInput) \in 0..8
        /\ \A r \in RaisedOnce(riskInput) :
               /\ RiskScore(r) >= RiskScore(riskInput)
               /\ LabelRank(computeRiskLevel(r)) >= LabelRank(riskOut)

\* a Medium report with every factor but the flood, 19 people: one more
\* person, or the flood, makes it High with a score above 5
C29_Witness ==
    /\ riskOut = "Medium"
    /\ RiskScore(riskInput) = 4
    /\ riskInput.mainSymptoms = {SymFever}
    /\ riskInput.waterDirty = "yes"
    /\ riskInput.flooding = "no"
    /\ riskInput.peopleCount = <<19>>
    /\ computeRiskLevel([riskInput EXCEPT !.peopleCount = <<20>>]) = "High"

-----------------------------------------------------------------------------
(* computeSummary on report lists of any content: one call per list.       *)

\* longest report list handed to computeSummary: for the top area, for the
\* count of today's reports
MaxAreaReports == 3
MaxTodayReports == 2

\* every component other than the harnesses, as constructed
ComponentsIdle ==
    /\ riskInput = NoRiskInput
    /\ riskOut = "none"
    /\ AshaIdle
    /\ DashIdle
    /\ PanelIdle
    /\ NarrIdle
    /\ MapIdle

\* the fields of an annotated report that computeSummary reads
SummaryReport(village, people, stamp) ==
    [villageName |-> village, peopleCount |-> people, submittedAt |-> stamp,
     risk |-> IF NumberOrZero(people) >= 10 THEN "High" ELSE "Low"]

ListsOver(S, n) == UNION {[1..k -> S] : k \in 0..n}

\* village names as the form's text field gives them: none, the word the
\* summary uses for none, a name, a ward number
VillageNames == {"", "Unknown", "Rampur", "12"}

AreaReports == {SummaryReport(v, p, <<0>>) : v \in VillageNames, p \in {<<>>, <<5>>, <<10>>}}

\* local time minus UTC, in minutes: UTC, India, New York
ZoneOffsets == {0, 330, 0 - 300}

\* instants around the local midnight that starts the day of now, and none
StampsAround(now, offset) ==
    LET start == todayStart(now, offset)
    IN  {<<>>, <<start - MinutesPerDay>>, <<start - 1>>, <<start>>, <<start + 1>>, <<now>>,
         <<start + MinutesPerDay>>}

TodayReports(now, offset) ==
    {SummaryReport("Rampur", <<5>>, s) : s \in StampsAround(now, offset)}

InitTopArea ==
    /\ ComponentsIdle
    /\ PdfIdle
    /\ AccessIdle
    /\ \E list \in ListsOver(AreaReports, MaxAreaReports) :
           sumInput = [reports |-> list, now |-> SessionNow, offset |-> SessionOffset]
    /\ sumOut = NotCalled

InitToday ==
    /\ ComponentsIdle
    /\ PdfIdle
    /\ AccessIdle
    /\ \E now \in {0, 1, 1439, 2000}, offset \in ZoneOffsets :
           \E list \in ListsOver(TodayReports(now, offset), MaxTodayReports) :
               sumInput = [reports |-> list, now |-> now, offset |-> offset]
    /\ sumOut = NotCalled

Summarise ==
    /\ sumOut = NotCalled
    /\ sumOut' = computeSummaryAt(sumInput.reports, <<>>, sumInput.now, sumInput.offset)
    /\ UNCHANGED <<riskVars, ashaVars, dashVars, panelVars, narrVars, mapVars, sumInput,
                   pdfInput, pdfOut, accessInput, accessOut>>

NextSummary == Summarise

SpecTopArea == InitTopArea /\ [][NextSummary]_vars

SpecToday == InitToday /\ [][NextSummary]_vars

(* C21: the top area is the village whose reports have the largest sum of  *)
(* peopleCount, reports without a village name counting for 'Unknown';     *)
(* among villages with the same largest sum it is the one met first in the *)
(* report list; for an empty list it is '-'. Checked under SpecTopArea.    *)
C21_Village(report) == IF report.villageName = "" THEN "Unknown" ELSE report.villageName

RECURSIVE C21_Sum(_, _, _)
C21_Sum(list, village, k) ==
    IF k = 0 THEN 0
    ELSE C21_Sum(list, village, k - 1)
         + (IF C21_Village(list[k]) = village /\ list[k].peopleCount # <<>>
            THEN list[k].peopleCount[1] ELSE 0)

C21_TopArea ==
    sumOut # NotCalled =>
        LET list == sumInput.reports
            total(k) == C21_Sum(list, C21_Village(list[k]), Len(list))
        IN  IF list = <<>> THEN sumOut.topArea = "-"
            ELSE \E k \in DOMAIN list :
                     /\ sumOut.topArea = C21_Village(list[k])
                     /\ \A j \in DOMAIN list : total(j) <= total(k)
                     /\ \A j \in 1..(k - 1) : total(j) < total(k)

(* C22: newReports is the number of reports whose timestamp is at or after *)
(* the local midnight that starts the day of the computation: a report     *)
(* stamped one minute before that midnight is not counted, one stamped at  *)
(* that midnight is, and one without a timestamp is not. Checked under     *)
(* SpecToday.                                                              *)
C22_LocalMinute(instant, offset) == instant + offset

C22_Counted(report, now, offset) ==
    /\ report.submittedAt # <<>>
    /\ C22_LocalMinute(report.submittedAt[1], offset) \div MinutesPerDay
           >= C22_LocalMinute(now, offset) \div MinutesPerDay

C22_NewToday ==
    sumOut # NotCalled =>
        LET list == sumInput.reports
            midnight == CHOOSE m \in (sumInput.now - MinutesPerDay + 1)..sumInput.now :
                            C22_LocalMinute(m, sumInput.offset) % MinutesPerDay = 0
        IN  /\ sumOut.newReports =
                   Cardinality({k \in DOMAIN list :
                                   C22_Counted(list[k], sumInput.now, sumInput.offset)})
            /\ \A k \in DOMAIN list :
                   /\ list[k].submittedAt = <<midnight - 1>> =>
                          ~C22_Counted(list[k], sumInput.now, sumInput.offset)
                   /\ list[k].submittedAt = <<midnight>> =>
                          C22_Counted(list[k], sumInput.now, sumInput.offset)
            /\ (\A k \in DOMAIN list : list[k].submittedAt \in {<<>>, <<midnight - 1>>}) =>
                   sumOut.newReports = 0
            /\ (\A k \in DOMAIN list : list[k].submittedAt = <<midnight>>) =>
                   sumOut.newReports = Len(list)

\* in India, one minute into the day: of a report stamped at local midnight
\* and one stamped a minute before it, one is counted
C22_Witness ==
    /\ sumOut # NotCalled
    /\ sumInput.offset = 330
    /\ sumInput.now = 1
    /\ Len(sumInput.reports) = 2
    /\ sumInput.reports[1].submittedAt = <<0 - 330>>
    /\ sumInput.reports[2].submittedAt = <<0 - 331>>
    /\ sumOut.newReports = 1

-----------------------------------------------------------------------------
(* hasOfficialAccess (part_002). The allow-list setting is the sequence of *)
(* the pieces that split(',') cuts it into; a user is <<>> when missing    *)
(* and <<u>> otherwise; an address that is undefined is <<>>, a string s   *)
(* is <<s>>.                                                               *)

\* pieces in the setting, entries in user.emailAddresses
MaxAllowed == 2
MaxSecondary == 1

MailA      == <<"a","@","x">>
MailAUpper == <<"A","@","X">>
MailAPad   == <<" ","a","@","x"," ">>
MailB      == <<"b","@","x">>

\* the pieces of a setting: empty, blank, addresses in either case, padded
AllowedPieces == {<<>>, <<" ">>, MailA, MailAUpper, MailAPad, MailB}

\* what an emailAddress field holds: undefined, '', an address
AddressFields == {<<>>, <<<<>>>>, <<MailA>>, <<MailAUpper>>, <<MailAPad>>, <<MailB>>}

NoAddressList == [has |-> FALSE]

Users ==
    {<<>>} \cup
    {<<[primaryEmailAddress |-> p, emailAddresses |-> e]>> :
        p \in AddressFields,
        e \in {NoAddressList} \cup
               {[has |-> TRUE, entries |-> list] : list \in ListsOver(AddressFields, MaxSecondary)}}

\* rawAllowedEmails.split(',').map(email => email.trim().toLowerCase()).filter(Boolean)
\* (lines 6-9)
allowedOfficialEmails(pieces) ==
    SelectSeq([i \in DOMAIN pieces |-> toLowerCase(trim(pieces[i]))], LAMBDA email : email # <<>>)

\* [...].filter(Boolean): undefined and '' are dropped
FilterBoolean(fields) == SelectSeq(fields, LAMBDA f : f # <<>> /\ f[1] # <<>>)

hasOfficialAccess_CaseSensitive(pieces, user) ==
    IF user = <<>> \/ Len(allowedOfficialEmails(pieces)) = 0 THEN FALSE
    ELSE LET u == user[1]
             kept == FilterBoolean(<<u.primaryEmailAddress>> \o
                         (IF u.emailAddresses.has THEN u.emailAddresses.entries ELSE <<>>))
             userEmails == [i \in DOMAIN kept |-> kept[i][1]]
         IN  \E i \in DOMAIN userEmails :
                 \E j \in DOMAIN allowedOfficialEmails(pieces) :
                     allowedOfficialEmails(pieces)[j] = userEmails[i]

\* hasOfficialAccess (lines 11-24)
hasOfficialAccess(pieces, user) ==
    IF user = <<>> \/ Len(allowedOfficialEmails(pieces)) = 0 THEN FALSE
    ELSE LET u == user[1]
             kept == FilterBoolean(<<u.primaryEmailAddress>> \o
                         (IF u.emailAddresses.has THEN u.emailAddresses.entries ELSE <<>>))
             userEmails == [i \in DOMAIN kept |-> toLowerCase(kept[i][1])]
         IN  \E i \in DOMAIN userEmails :
                 \E j \in DOMAIN allowedOfficialEmails(pieces) :
                     allowedOfficialEmails(pieces)[j] = userEmails[i]

InitAccess ==
    /\ ComponentsIdle
    /\ SumIdle
    /\ PdfIdle
    /\ \E pieces \in ListsOver(AllowedPieces, MaxAllowed) \ {<<>>}, user \in Users :
           accessInput = [allowed |-> pieces, user |-> user]
    /\ accessOut = NotCalled

CheckAccess ==
    /\ accessOut = NotCalled
    /\ accessOut' = [called |-> TRUE,
                      granted |-> hasOfficialAccess(accessInput.allowed, accessInput.user)]
    /\ UNCHANGED <<riskVars, ashaVars, dashVars, panelVars, narrVars, mapVars, sumInput,
                   sumOut, pdfInput, pdfOut, accessInput>>

NextAccess == CheckAccess

SpecAccess == InitAccess /\ [][NextAccess]_vars

(* C30: hasOfficialAccess is false for a missing user, for a user without  *)
(* an email address and for every user when the allow-list (the trimmed,   *)
(* non-empty pieces of the setting) is empty; it is true exactly when one  *)
(* of the user's primary or secondary addresses equals an allow-list entry *)
(* up to letter case. Checked under SpecAccess.                            *)
C30_SameUpToCase(a, b) ==
    /\ Len(a) = Len(b)
    /\ \A i \in 1..Len(a) : toLowerChar(a[i]) = toLowerChar(b[i])

C30_AllowList == {trim(accessInput.allowed[i]) : i \in DOMAIN accessInput.allowed} \ {<<>>}

C30_UserAddresses ==
    IF accessInput.user = <<>> THEN {}
    ELSE LET u == accessInput.user[1]
             secondary == IF u.emailAddresses.has
                          THEN {u.emailAddresses.entries[i] : i \in DOMAIN u.emailAddresses.entries}
                          ELSE {}
         IN  {f[1] : f \in {g \in {u.primaryEmailAddress} \cup secondary : g # <<>>}} \ {<<>>}

C30_FailClosed ==
    accessOut # NotCalled =>
        /\ accessInput.user = <<>> => ~accessOut.granted
        /\ C30_UserAddresses = {} => ~accessOut.granted
        /\ C30_AllowList = {} => ~accessOut.granted
        /\ accessOut.granted <=>
               \E mine \in C30_UserAddresses, entry \in C30_AllowList :
                   C30_SameUpToCase(mine, entry)

\* access granted through a secondary address in capitals, against a padded
\* lower-case piece of the setting, the primary address being undefined
C30_Witness ==
    /\ accessOut # NotCalled
    /\ accessOut.granted
    /\ accessInput.allowed = <<<<>>, MailAPad>>
    /\ accessInput.user # <<>>
    /\ accessInput.user[1].primaryEmailAddress = <<>>
    /\ accessInput.user[1].emailAddresses = [has |-> TRUE, entries |-> <<<<MailAUpper>>>>]

-----------------------------------------------------------------------------
(* buildReportPdf and buildEmergencyPdf (OfficialDashboard.jsx lines       *)
(* 146-229, 244-272). Lengths are in thousandths of a millimetre. A        *)
(* document under construction is the current page, the cursor y and the   *)
(* text lines placed so far, each with its page and its y.                 *)

\* most lines that splitTextToSize cuts a text into
MaxWrapped == 32

Mm == 1000

\* the y above which the builders start a new page (lines 204, 266)
PageThreshold == 270 * Mm

\* distance between the lines of an array handed to doc.text at font size
\* 11: 11 pt * 1.15 (jsPDF's line height factor) * 25.4 / 72 mm
LinePitch == 4463

NewDoc(y) == [page |-> 1, y |-> y, lines |-> {}]

\* doc.text(string, x, y)
Text(doc, y) == [doc EXCEPT !.lines = @ \cup {[page |-> doc.page, y |-> y]}]

\* doc.text(lines, x, y) for an array of n lines
TextLines(doc, n, y) ==
    [doc EXCEPT !.lines = @ \cup {[page |-> doc.page, y |-> y + (k - 1) * LinePitch] : k \in 1..n}]

\* doc.addPage(); y = 20
AddPage(doc) == [doc EXCEPT !.page = @ + 1, !.y = 20 * Mm]

Advance(doc, dy) == [doc EXCEPT !.y = @ + dy]

\* section.fields.forEach (lines 201-208) over n fields
RECURSIVE PlaceFields(_, _)
PlaceFields(doc, n) ==
    IF n = 0 THEN doc
    ELSE LET placed == Advance(Text(doc, doc.y), 6 * Mm)
         IN  PlaceFields(IF placed.y > PageThreshold THEN AddPage(placed) ELSE placed, n - 1)

\* the number of fields of the four sections (lines 160-192)
SectionFields == <<2, 4, 3, 2>>

\* sections.forEach (lines 195-213) from section s on
RECURSIVE PlaceSections(_, _)
PlaceSections(doc, s) ==
    IF s > Len(SectionFields) THEN doc
    ELSE LET titled == Advance(Text(doc, doc.y), 8 * Mm)
             filled == PlaceFields(titled, SectionFields[s])
         IN  PlaceSections(Advance(Advance(filled, 4 * Mm), 7 * Mm), s + 1)

\* the notes block (lines 215-227); no notes, no block
PlaceNotes(doc, notesLines) ==
    IF notesLines = 0 THEN doc
    ELSE LET start == IF doc.y > 250 * Mm THEN AddPage(doc) ELSE doc
         IN  TextLines(Text(start, start.y), notesLines, start.y + 8 * Mm)

\* buildReportPdf for a report whose notes wrap to notesLines lines
buildReportPdf(notesLines) ==
    LET header == Text(Text(NewDoc(25 * Mm), 25 * Mm), 36 * Mm)
    IN  PlaceNotes(PlaceSections([header EXCEPT !.y = 60 * Mm], 1), notesLines)

\* fields.forEach (lines 259-270) over values that wrap to the given numbers
\* of lines
RECURSIVE PlaceValues(_, _)
PlaceValues(doc, wrapped) ==
    IF wrapped = <<>> THEN doc
    ELSE LET n == Head(wrapped)
             placed == Advance(TextLines(Text(doc, doc.y), n, doc.y + 6 * Mm),
                               6 * Mm + n * 6 * Mm + 4 * Mm)
         IN  PlaceValues(IF placed.y > PageThreshold THEN AddPage(placed) ELSE placed,
                         Tail(wrapped))

\* buildEmergencyPdf for a request with a one-line water body name
buildEmergencyPdf(locationLines, concernLines) ==
    LET header == Text(Text(Text(NewDoc(58 * Mm), 25 * Mm), 34 * Mm), 42 * Mm)
    IN  PlaceValues(header, <<1, locationLines, concernLines>>)

PdfInputs ==
    {[kind |-> "report", notesLines |-> n] : n \in 0..MaxWrapped}
        \cup {[kind |-> "emergency", locationLines |-> a, concernLines |-> b] :
                  a \in 1..MaxWrapped, b \in 1..MaxWrapped}

InitPdf ==
    /\ ComponentsIdle
    /\ SumIdle
    /\ AccessIdle
    /\ pdfInput \in PdfInputs
    /\ pdfOut = NotCalled

BuildPdf ==
    /\ pdfOut = NotCalled
    /\ pdfOut' = IF pdfInput.kind = "report"
                  THEN [called |-> TRUE, doc |-> buildReportPdf(pdfInput.notesLines)]
                  ELSE [called |-> TRUE,
                        doc |-> buildEmergencyPdf(pdfInput.locationLines,
                                                  pdfInput.concernLines)]
    /\ UNCHANGED <<riskVars, ashaVars, dashVars, panelVars, narrVars, mapVars, sumInput,
                   sumOut, pdfInput, accessInput, accessOut>>

NextPdf == BuildPdf

SpecPdf == InitPdf /\ [][NextPdf]_vars

(* C26: in the document built for a field report, whatever the number of   *)
(* lines its notes wrap to, and in the one built for an emergency request, *)
(* whatever the numbers of lines its location and concern wrap to, no text *)
(* line is placed below the page threshold (y > 270). Checked under        *)
(* SpecPdf.                                                                *)
C26_Paginates ==
    pdfOut # NotCalled => \A line \in pdfOut.doc.lines : line.y <= PageThreshold

-----------------------------------------------------------------------------
(* C23: once the maps script is loaded, in every state (each load and each *)
(* delete being one step up to its redraw) the markers on the map are, one *)
(* for one, the reports of the in-memory list that have a latitude and a   *)
(* longitude, each with the colour of the report's risk (Low green         *)
(* #22c55e, Medium yellow #facc15, High red #ef4444); no marker is left of *)
(* an earlier redraw or of a deleted report and no report has two, also    *)
(* when several redraws were waiting for the script. Checked under SpecMap.*)
C23_Colour(risk) ==
    CASE risk = "Low" -> "#22c55e" [] risk = "Medium" -> "#facc15" [] risk = "High" -> "#ef4444"

C23_Located == {k \in DOMAIN reports : reports[k].latitude # "" /\ reports[k].longitude # ""}

C23_MarkersMatch ==
    mapScript = "loaded" =>
        /\ \A k \in C23_Located :
               \E m \in BagToSet(mapShown) :
                   /\ m.report = reports[k].id
                   /\ m.fillColor = C23_Colour(reports[k].risk)
                   /\ m.position = <<reports[k].latitude, reports[k].longitude>>
                   /\ CopiesIn(m, mapShown) = 1
                   /\ \A other \in BagToSet(mapShown) : other.report = m.report => other = m
        /\ \A m \in BagToSet(mapShown) : \E k \in C23_Located : reports[k].id = m.report
        /\ BagCardinality(mapShown) = Cardinality(C23_Located)
        /\ BagOfSeq(mapMarkers) = mapShown

\* the script arrived after a delete had resolved: the redraw of the load
\* and the redraw of the delete were both waiting for it
C23_Witness ==
    /\ lastOp = "loaded"
    /\ mapScript = "loaded"
    /\ Len(reports) = NumReports - 1
    /\ BagCardinality(mapShown) >= 1
    /\ BagCardinality(mapShown) < Len(Markers([k \in 1..NumReports |-> Annotate(FieldDoc(k))]))

=============================================================================
